---- MODULE Spec2Model ----
(***************************************************************************)
(* The stockos event backbone: transactional outbox, outbox dispatcher,    *)
(* event consumer, agent runtime, command transactions and the optimistic  *)
(* stock mutator.  Every subsystem has its own specification over the      *)
(* shared variables; the variables of the other subsystems stay at their   *)
(* initial values.                                                         *)
(***************************************************************************)
EXTENDS Integers, Sequences, FiniteSets, TLC

\* ------------------------------------------------------------------ bounds

\* number of outbox rows that can ever be inserted
MaxRows == 2
\* number of broker messages (inbound and derived) that can ever exist
MaxMsgs == 3
\* number of agents the registry returns for an event type
MaxAgents == 2
\* deliveries of one message the model follows
MaxDeliveries == 5
\* concurrent callers of the stock mutator
MaxCallers == 2
\* MovementRecorded envelopes and the times each may be consumed
MaxEvents == 2
MaxRuns == 2
\* largest movement quantity and adjustment delta
MaxQuantity == 2
\* candidate sources and requested quantity of one FEFO allocation
MaxSources == 2
MaxRequested == 3
\* reservation rows
MaxReservations == 2
\* processOutbox passes of one dispatcher, and the messages one pass may find
MaxPolls == 5
MaxBatch == 2
\* agents stop touching the stock rows once a rowVersion has passed this
MaxRowVersion == 3
\* agents subscribed to one event in a run of the agent runner
MaxSubscribed == 3
\* state mutations one agent handler performs
MaxMutations == 2
\* ticks of the scheduled job, and days the clock of the purge is followed
MaxTicks == 1
MaxAge == 8
\* candidates handed to one scoreLocations call
MaxCandidates == 2
\* the largest reorder point, safety stock and maximum stock of a product
MaxThreshold == 3
\* rows of lot_batches
MaxLots == 2

\* ------------------------------------------------------- program constants

\* OutboxMessage.maxRetries column default (the row's own maximum)
DefaultMaxRetries == 5
\* findPendingMessages(limit, maxRetries = 5)
FindPendingMaxRetries == 5
\* OutboxDispatcher batchSize passed by the worker entry point
BatchSize == 100

\* EventConsumer prefetchCount passed by the worker entry point
PrefetchCount == 10
\* handleMessage: if (retryCount < 3)
MaxRetriesConsumer == 3

RowIds == 1..MaxRows
DispatcherIds == {"d1"}
\* the worker processes that each run a dispatcher against the same outbox
Replicas == {"d1", "d2"}
NoRow == [status |-> "NONE"]

VARIABLES
  outbox,      \* outbox_messages table: RowIds -> row record or NoRow
  disp,        \* per dispatcher: isRunning, channel, position in processOutbox
  wire,        \* row ids written to the dispatcher's channel, not yet at the broker
  acked        \* row ids for which a broker confirm reached the dispatcher


VARIABLES
  cmd,         \* per command transaction: kind, state, next step, buffered writes
  tables       \* committed business and event-store rows: <<table, command>>

VARIABLES
  msgs,        \* broker messages of stockos.agent-processor and its dead-letter queue
  pending,     \* per in-flight handleMessage: result.eventsToPublish not yet published
  nextId,      \* the next fresh event id (randomUUID)
  consumerChannel \* the consumer's channel: consuming, cancelled or closed

VARIABLES
  stockLevels, \* stock_levels table: location -> row record or NoLevel
  adj,         \* per caller of updateQuantities: position, arguments, row read
  envs,        \* MovementRecorded envelopes by event_id
  passes       \* times StockUpdateAgent.process has consumed each envelope

VARIABLES
  reservations, \* reservations table: id -> row record or NoReservation
  ful           \* per caller of fulfillReservation: position, arguments, row read

VARIABLES
  ship         \* the ShipmentRequested envelope handled: what was shipped from where

VARIABLES
  txn          \* per concurrent handler run: the open prisma.$transaction and what it read

VARIABLES
  poller       \* one OutboxDispatcher: isRunning, pollTimer, and its processOutbox passes

VARIABLES
  cascade      \* the envelopes of one cascade on stockos.agent-processor, by event type

VARIABLES
  fefo         \* the last allocateWithFefo call: its arguments and its result

VARIABLES
  slot         \* the last scoreLocations call: its arguments and its result

VARIABLES
  thr          \* the last ThresholdAgent.process call: what it read and returned

VARIABLES
  expiry       \* lot_batches rows, and the delivery of one ScheduledExpiryCheck

VARIABLES
  runner       \* one executeForEvent call: its batches, handlers and result

VARIABLES
  registry     \* AgentRegistry: agents, eventSubscriptions, and the last call

VARIABLES
  sched        \* SchedulerManager: the job run, and the rows it writes and purges

dispVars == <<disp, wire, acked>>
stockVars == <<stockLevels, adj, envs, passes>>
resVars == <<reservations, ful>>
cmdVars == <<cmd, tables>>
consumerVars == <<msgs, pending, nextId>>

vars == <<outbox, dispVars, cmdVars, consumerVars, consumerChannel, stockVars, resVars, ship, txn, poller, cascade, fefo, slot, thr, expiry, runner, registry, sched>>

\* what the actions of one subsystem leave alone in the others
restOfOutbox == <<cmdVars, consumerVars, consumerChannel, stockVars, resVars, ship, txn, poller, cascade, fefo, slot, thr, expiry, runner, registry, sched>>
restOfCmd == <<dispVars, consumerVars, consumerChannel, stockVars, resVars, ship, txn, poller, cascade, fefo, slot, thr, expiry, runner, registry, sched>>
restOfConsumer == <<outbox, dispVars, cmdVars, consumerChannel, stockVars, resVars, ship, txn, poller, cascade, fefo, slot, thr, expiry, runner, registry, sched>>
restOfStock == <<outbox, dispVars, cmdVars, consumerVars, consumerChannel, resVars, ship, txn, poller, cascade, fefo, slot, thr, expiry, runner, registry, sched>>
restOfFefo == <<outbox, dispVars, cmdVars, consumerVars, consumerChannel, stockVars, resVars, ship, txn, poller, cascade, slot, thr, expiry, runner, registry, sched>>
restOfRunner == <<outbox, dispVars, cmdVars, consumerVars, consumerChannel, stockVars, resVars, ship, txn, poller, cascade, fefo, slot, thr, expiry, registry, sched>>
restOfRegistry == <<outbox, dispVars, cmdVars, consumerVars, consumerChannel, stockVars, resVars, ship, txn, poller, cascade, fefo, slot, thr, expiry, runner, sched>>
restOfSched == <<outbox, dispVars, cmdVars, consumerVars, consumerChannel, stockVars, resVars, ship, txn, poller, cascade, fefo, slot, thr, expiry, runner, registry>>
restOfSlot == <<outbox, dispVars, cmdVars, consumerVars, consumerChannel, stockVars, resVars, ship, txn, poller, cascade, fefo, thr, expiry, runner, registry, sched>>
restOfThreshold == <<outbox, dispVars, cmdVars, consumerVars, consumerChannel, stockVars, resVars, ship, txn, poller, cascade, fefo, slot, expiry, runner, registry, sched>>
restOfExpiry == <<outbox, dispVars, cmdVars, consumerVars, consumerChannel, stockVars, resVars, ship, txn, poller, cascade, fefo, slot, thr, runner, registry, sched>>
restOfShip == <<outbox, dispVars, cmdVars, consumerVars, consumerChannel, adj, passes, ful, txn, poller, cascade, fefo, slot, thr, expiry, runner, registry, sched>>
restOfChannel == <<outbox, dispVars, cmdVars, consumerVars, stockVars, resVars, ship, txn, poller, cascade, fefo, slot, thr, expiry, runner, registry, sched>>
restOfTxn == <<outbox, dispVars, cmdVars, consumerVars, consumerChannel, adj, envs, ful, ship, poller, cascade, fefo, slot, thr, expiry, runner, registry, sched>>
restOfPoller == <<outbox, dispVars, cmdVars, consumerVars, consumerChannel, stockVars, resVars, ship, txn, cascade, fefo, slot, thr, expiry, runner, registry, sched>>
restOfCascade == <<outbox, dispVars, cmdVars, consumerVars, consumerChannel, stockVars, resVars, ship, txn, poller, fefo, slot, thr, expiry, runner, registry, sched>>
restOfReserve == <<outbox, dispVars, cmdVars, consumerVars, consumerChannel, adj, envs, passes, ship, txn, poller, cascade, fefo, slot, thr, expiry, runner, registry, sched>>

\* ---------------------------------------------------------- outbox store

\* 2^n, the backoff of markAsFailed (Math.pow(2, newRetryCount))
RECURSIVE Pow2(_)
Pow2(n) == IF n = 0 THEN 1 ELSE 2 * Pow2(n - 1)

\* Prisma.OutboxMessageCreateInput as the routes fill it: status, retryCount,
\* maxRetries and scheduledAt are left to the column defaults.  scheduledAt is
\* kept relative to the clock: the number of seconds until the row is due.
NewOutboxRow ==
  [status |-> "PENDING", retryCount |-> 0, maxRetries |-> DefaultMaxRetries,
   scheduledAt |-> 0, lastError |-> "null"]

\* the where clause of findPendingMessages
IsPendingDue(row, maxRetries) ==
  /\ row.status = "PENDING"
  /\ row.retryCount < maxRetries
  /\ row.scheduledAt <= 0

\* all orderings of a finite set
SeqsOf(S) ==
  { s \in [1..Cardinality(S) -> S] : \A i, j \in 1..Cardinality(S) : i # j => s[i] # s[j] }

Take(s, n) == IF Len(s) <= n THEN s ELSE SubSeq(s, 1, n)

\* findPendingMessages: the due PENDING rows, oldest scheduledAt first, at most
\* limit of them.  Rows that are due have scheduledAt in the past, which the
\* relative clock does not order, so every order of the due rows is possible.
FindPendingMessages(limit, maxRetries) ==
  { Take(s, limit) :
      s \in SeqsOf({ r \in RowIds : outbox[r] # NoRow /\ IsPendingDue(outbox[r], maxRetries) }) }

\* markAsPublished: the update's data
MarkAsPublishedRow(row) == [row EXCEPT !.status = "PUBLISHED"]

FailedStatusMutant(newRetryCount, maxRetries) ==
  IF newRetryCount > maxRetries THEN "FAILED" ELSE "PENDING"

\* markAsFailed: const status = newRetryCount >= message.maxRetries ? ...
FailedStatus(newRetryCount, maxRetries) ==
  IF newRetryCount >= maxRetries THEN "FAILED" ELSE "PENDING"

BackoffSecondsMutant(newRetryCount) == Pow2(newRetryCount - 1)

\* markAsFailed: const backoffSeconds = Math.pow(2, newRetryCount)
BackoffSeconds(newRetryCount) == Pow2(newRetryCount)

\* markAsFailed: the update's data, computed from the row read by findUnique
MarkAsFailedRow(row, read) ==
  [row EXCEPT !.status = FailedStatus(read.retryCount + 1, read.maxRetries),
              !.retryCount = read.retryCount + 1,
              !.lastError = "error",
              !.scheduledAt = BackoffSeconds(read.retryCount + 1)]

\* retryFailedMessage: the update's data
RetryFailedMessageRow(row) ==
  [row EXCEPT !.status = "PENDING", !.retryCount = 0, !.lastError = "null",
              !.scheduledAt = 0]

\* ------------------------------------------------------ outbox dispatcher

NewDispatcher ==
  [isRunning |-> FALSE, channel |-> "null", pc |-> "new", batch |-> <<>>, i |-> 0,
   read |-> NoRow]

\* the row the pass is working on: message.id of the for loop
CurrentId(d) == disp[d].batch[disp[d].i]

\* end of one iteration of the for loop: the next message, or the end of
\* processOutbox, where poll()'s finally arms the timer (isRunning holds)
NextMessage(d) ==
  IF disp[d].i < Len(disp[d].batch)
    THEN [disp[d] EXCEPT !.pc = "publish", !.i = @ + 1, !.read = NoRow]
    ELSE [disp[d] EXCEPT !.pc = "timer", !.batch = <<>>, !.i = 0, !.read = NoRow]

\* start(): createChannel() opens a plain (non-confirm) channel, then poll()
\* calls processOutbox, which issues findPendingMessages
Start(d) ==
  /\ disp[d].pc = "new"
  /\ disp' = [disp EXCEPT ![d] = [@ EXCEPT !.channel = "plain", !.isRunning = TRUE,
                                           !.pc = "find"]]
  /\ UNCHANGED <<outbox, wire, acked, restOfOutbox>>

\* poll(): the timer fires while the dispatcher runs; processOutbox starts
PollTimer(d) ==
  /\ disp[d].pc = "timer"
  /\ disp[d].isRunning
  /\ disp' = [disp EXCEPT ![d] = [@ EXCEPT !.pc = "find"]]
  /\ UNCHANGED <<outbox, wire, acked, restOfOutbox>>

\* processOutbox: the result of findPendingMessages arrives; an empty batch
\* returns at once
FindPending(d) ==
  /\ disp[d].pc = "find"
  /\ \E b \in FindPendingMessages(BatchSize, FindPendingMaxRetries) :
       disp' = [disp EXCEPT ![d] =
                  IF Len(b) = 0 THEN [@ EXCEPT !.pc = "timer"]
                  ELSE [@ EXCEPT !.pc = "publish", !.batch = b, !.i = 1]]
  /\ UNCHANGED <<outbox, wire, acked, restOfOutbox>>

\* channel.publish returned true: the message is in the channel's write buffer
\* and the pass goes on to markAsPublished
PublishOk(d, r) ==
  /\ disp[d].pc = "publish"
  /\ disp[d].channel \notin {"null", "closed"}
  /\ CurrentId(d) = r
  /\ wire' = wire \cup {r}
  /\ disp' = [disp EXCEPT ![d] = [@ EXCEPT !.pc = "markPublished"]]
  /\ UNCHANGED <<outbox, acked, restOfOutbox>>

\* channel.publish returned false (write buffer above its high-water mark):
\* the message is buffered all the same, the row is left as it is
PublishFull(d) ==
  /\ disp[d].pc = "publish"
  /\ disp[d].channel \notin {"null", "closed"}
  /\ wire' = wire \cup {CurrentId(d)}
  /\ disp' = [disp EXCEPT ![d] = NextMessage(d)]
  /\ UNCHANGED <<outbox, acked, restOfOutbox>>

\* channel.publish threw (channel closed by the broker, serialization error):
\* the catch block calls markAsFailed, which first reads the row
PublishThrow(d) ==
  /\ disp[d].pc = "publish"
  /\ disp' = [disp EXCEPT ![d] = [@ EXCEPT !.pc = "markFailedRead"]]
  /\ UNCHANGED <<outbox, wire, acked, restOfOutbox>>

\* await repo.markAsPublished(message.id)
MarkPublished(d) ==
  /\ disp[d].pc = "markPublished"
  /\ outbox[CurrentId(d)] # NoRow
  /\ outbox' = [outbox EXCEPT ![CurrentId(d)] = MarkAsPublishedRow(@)]
  /\ disp' = [disp EXCEPT ![d] = NextMessage(d)]
  /\ UNCHANGED <<wire, acked, restOfOutbox>>

\* markAsFailed: findUnique
MarkFailedRead(d) ==
  /\ disp[d].pc = "markFailedRead"
  /\ outbox[CurrentId(d)] # NoRow
  /\ disp' = [disp EXCEPT ![d] = [@ EXCEPT !.pc = "markFailedWrite",
                                           !.read = outbox[CurrentId(d)]]]
  /\ UNCHANGED <<outbox, wire, acked, restOfOutbox>>

\* markAsFailed: update
MarkFailedWrite(d) ==
  /\ disp[d].pc = "markFailedWrite"
  /\ outbox[CurrentId(d)] # NoRow
  /\ outbox' = [outbox EXCEPT ![CurrentId(d)] = MarkAsFailedRow(@, disp[d].read)]
  /\ disp' = [disp EXCEPT ![d] = NextMessage(d)]
  /\ UNCHANGED <<wire, acked, restOfOutbox>>

\* stop(): isRunning is cleared, the poll timer is cancelled and the channel
\* and the connection are closed at once; this.channel keeps the closed
\* channel, on which publish throws.  A pass in progress goes on.
Stop(d) ==
  /\ disp[d].isRunning
  /\ disp' = [disp EXCEPT ![d] = [@ EXCEPT !.isRunning = FALSE, !.channel = "closed"]]
  /\ UNCHANGED <<outbox, wire, acked, restOfOutbox>>

\* ------------------------------------------------ the dispatcher's poll loop

PassIds == 1..MaxPolls
NoPass == [pc |-> "none"]

\* new OutboxDispatcher(config): isRunning = false, pollTimer = null
NewPoller ==
  [started |-> FALSE, stopped |-> FALSE, isRunning |-> FALSE, pollTimer |-> "null",
   polls |-> 0, passes |-> [p \in PassIds |-> NoPass]]

PassesInFlight(q) == { p \in PassIds : q.passes[p].pc \in {"find", "publish"} }

PollMutant(q) ==
  IF ~q.isRunning THEN q
  ELSE [q EXCEPT !.polls = @ + 1, !.pollTimer = "armed",
                 !.passes[q.polls + 1] = [pc |-> "find", left |-> 0, published |-> 0, afterStop |-> q.stopped]]

\* poll(): returns when the dispatcher does not run, else calls processOutbox
\* (whose findPendingMessages is then awaited)
Poll(q) ==
  IF ~q.isRunning THEN q
  ELSE [q EXCEPT !.polls = @ + 1,
                 !.passes[q.polls + 1] = [pc |-> "find", left |-> 0, published |-> 0, afterStop |-> q.stopped]]

\* the promise of pass p settles: .catch logs, .finally arms the timer for
\* the next poll if the dispatcher still runs
Finally(q, p, outcome) ==
  [q EXCEPT !.passes[p] = [@ EXCEPT !.pc = outcome, !.left = 0],
            !.pollTimer = IF q.isRunning THEN "armed" ELSE @]

\* start(), called once by main(): isRunning = true; this.poll()
DispatcherStart ==
  /\ ~poller.started
  /\ poller' = Poll([poller EXCEPT !.started = TRUE, !.isRunning = TRUE])
  /\ UNCHANGED restOfPoller

\* the poll timer fires: () => this.poll()
TimerFires ==
  /\ poller.pollTimer = "armed"
  /\ poller.polls < MaxPolls
  /\ poller' = Poll([poller EXCEPT !.pollTimer = "fired"])
  /\ UNCHANGED restOfPoller

\* processOutbox of pass p: findPendingMessages returns; with no message the
\* pass is over, else the for loop starts
PassFinds(p, n) ==
  /\ poller.passes[p].pc = "find"
  /\ poller' = IF n = 0 THEN Finally(poller, p, "resolved")
               ELSE [poller EXCEPT !.passes[p] = [@ EXCEPT !.pc = "publish", !.left = n]]
  /\ UNCHANGED restOfPoller

\* processOutbox of pass p: one iteration of the for loop (publish and mark);
\* after the last message the pass is over
PassPublishes(p) ==
  /\ poller.passes[p].pc = "publish"
  /\ LET q == [poller EXCEPT !.passes[p].left = @ - 1, !.passes[p].published = @ + 1]
     IN  poller' = IF q.passes[p].left = 0 THEN Finally(q, p, "resolved") ELSE q
  /\ UNCHANGED restOfPoller

\* processOutbox of pass p rejects (findPendingMessages or markAsFailed throws)
PassRejects(p) ==
  /\ p \in PassesInFlight(poller)
  /\ poller' = Finally(poller, p, "rejected")
  /\ UNCHANGED restOfPoller

\* stop(), called by shutdown() after start() has returned: isRunning = false;
\* clearTimeout(this.pollTimer)
DispatcherStop ==
  /\ poller.started
  /\ poller' = [poller EXCEPT !.stopped = TRUE, !.isRunning = FALSE,
                              !.pollTimer = IF @ = "armed" THEN "cleared" ELSE @]
  /\ UNCHANGED restOfPoller

\* ------------------------------------------------- outbox environment

\* outboxRepo.create committed by a command transaction
InsertRow(r) ==
  /\ outbox[r] = NoRow
  /\ outbox' = [outbox EXCEPT ![r] = NewOutboxRow]
  /\ UNCHANGED <<disp, wire, acked, restOfOutbox>>

\* an operator calls retryFailedMessage(id); the update has no status condition
RetryFailedMessage(r) ==
  /\ outbox[r] # NoRow
  /\ outbox' = [outbox EXCEPT ![r] = RetryFailedMessageRow(@)]
  /\ UNCHANGED <<disp, wire, acked, restOfOutbox>>

\* one second passes: every scheduledAt in the future comes one second closer
Tick ==
  /\ \E r \in RowIds : outbox[r] # NoRow /\ outbox[r].scheduledAt > 0
  /\ outbox' = [r \in RowIds |->
                  IF outbox[r] # NoRow /\ outbox[r].scheduledAt > 0
                    THEN [outbox[r] EXCEPT !.scheduledAt = @ - 1]
                    ELSE outbox[r]]
  /\ UNCHANGED <<disp, wire, acked, restOfOutbox>>

\* the broker takes a message off the connection and routes it; it confirms
\* the publish to the publisher only on a confirm channel
BrokerAccept(r) ==
  /\ r \in wire
  /\ wire' = wire \ {r}
  /\ acked' = IF \E d \in DispatcherIds : disp[d].channel = "confirm"
                THEN acked \cup {r} ELSE acked
  /\ UNCHANGED <<outbox, disp, restOfOutbox>>

\* ------------------------------------------------- command transactions

CmdKinds == {"movement", "order", "receipt"}

\* POST /receipts (receivingRoutes): tx.receipt.create, tx.receiptLine.create,
\* then the event and the outbox row, all on the transaction client
ReceiptSteps == <<"receipt", "receiptLine", "eventStore", "outbox">>

\* the writes of a command's transaction body, in program order
CmdSteps(kind) ==
  CASE kind = "movement" -> <<"movement", "eventStore", "outbox">>
    [] kind = "order" -> <<"salesOrder", "salesOrderLine", "eventStore", "outbox">>
    [] kind = "receipt" -> ReceiptSteps

RepoClientMutant(kind, table) == IF table = "outbox" THEN "prisma" ELSE "tx"

\* the client a repository of the transaction body is constructed with:
\* new MovementRepository(tx), new EventStoreRepository(tx),
\* new OutboxRepository(tx), tx.salesOrder, tx.salesOrderLine
RepoClient(kind, table) == "tx"

NewCmd == [kind |-> "none", state |-> "new", pc |-> 0, buffer |-> {}]

\* a write made visible to other connections
Visible(c, t) == IF t = "outbox" THEN outbox[c] # NoRow ELSE <<t, c>> \in tables

\* withTransaction(fn): prisma.$transaction opens an interactive transaction
BeginTx(c, kind) ==
  /\ cmd[c].state = "new"
  /\ cmd' = [cmd EXCEPT ![c] = [kind |-> kind, state |-> "open", pc |-> 1, buffer |-> {}]]
  /\ UNCHANGED <<outbox, tables, restOfCmd>>

\* the next create of the transaction body: through tx it stays invisible
\* until commit, through the global client it is committed at once
TxWrite(c) ==
  /\ cmd[c].state = "open"
  /\ cmd[c].pc <= Len(CmdSteps(cmd[c].kind))
  /\ LET t == CmdSteps(cmd[c].kind)[cmd[c].pc]
         direct == RepoClient(cmd[c].kind, t) # "tx"
     IN /\ cmd' = [cmd EXCEPT ![c] = [@ EXCEPT !.pc = @ + 1,
                                    !.buffer = IF direct THEN @ ELSE @ \cup {t}]]
        /\ outbox' = IF direct /\ t = "outbox"
                       THEN [outbox EXCEPT ![c] = NewOutboxRow] ELSE outbox
        /\ tables' = IF direct /\ t # "outbox" THEN tables \cup {<<t, c>>} ELSE tables
  /\ UNCHANGED restOfCmd

\* a statement of the body throws (constraint violation, store error) or the
\* transaction times out: $transaction rolls back and rethrows
TxAbort(c) ==
  /\ cmd[c].state = "open"
  /\ cmd' = [cmd EXCEPT ![c] = [@ EXCEPT !.state = "aborted", !.buffer = {}]]
  /\ UNCHANGED <<outbox, tables, restOfCmd>>

\* the body returned: every buffered write becomes visible at once
TxCommit(c) ==
  /\ cmd[c].state = "open"
  /\ cmd[c].pc > Len(CmdSteps(cmd[c].kind))
  /\ cmd' = [cmd EXCEPT ![c] = [@ EXCEPT !.state = "committed", !.buffer = {}]]
  /\ outbox' = IF "outbox" \in cmd[c].buffer
                 THEN [outbox EXCEPT ![c] = NewOutboxRow] ELSE outbox
  /\ tables' = tables \cup { <<t, c>> : t \in cmd[c].buffer \ {"outbox"} }
  /\ UNCHANGED restOfCmd

\* ----------------------------------------------------------- agent runtime

MsgIds == 1..MaxMsgs
NoMsg == [place |-> "none"]
Tenants == {"t1", "t2"}
Correlations == {"k1", "k2"}

\* what an agent's process() does on one invocation
AgentOutcomes == {"success", "failure", "throws", "timeout"}

\* createEvent as an agent calls it: the context fields are the agent's choice
CreateEvent(id, tenantId, correlationId, causationId) ==
  [event_id |-> id, tenant_id |-> tenantId, correlation_id |-> correlationId,
   causation_id |-> causationId]

\* BaseAgent.handle: the result of process(), or a failure result when
\* process() throws; the error does not leave handle
Handle(outcome, events) ==
  CASE outcome = "success" -> [success |-> TRUE, eventsToPublish |-> events]
    [] outcome = "failure" -> [success |-> FALSE, eventsToPublish |-> <<>>]
    [] outcome = "throws" -> [success |-> FALSE, eventsToPublish |-> <<>>]

\* AgentRunner.executeAgent: Promise.race of handle and the timeout; a
\* rejection becomes a failure result
ExecuteAgent(outcome, events) ==
  IF outcome = "timeout"
    THEN [success |-> FALSE, eventsToPublish |-> <<>>]
    ELSE Handle(outcome, events)

RECURSIVE FlatMapEvents(_)
FlatMapEvents(results) ==
  IF results = <<>> THEN <<>>
  ELSE Head(results).eventsToPublish \o FlatMapEvents(Tail(results))

\* AgentRunner.executeForEvent: the results of the subscribed agents, in the
\* order of the agent list, and the envelopes they returned, unchanged
ExecuteForEvent(results) ==
  [successCount |-> Cardinality({ i \in DOMAIN results : results[i].success }),
   failureCount |-> Cardinality({ i \in DOMAIN results : ~results[i].success }),
   eventsToPublish |-> FlatMapEvents(results)]

\* ---------------------------------------------------------- event consumer

\* const retryCount = msg.properties.headers?.['x-retry-count'] ?? 0
RetryCount(msg) == msg.xRetryCount

\* the catch block of handleMessage: requeue after a delay, or dead-letter
OnError(msg) ==
  IF RetryCount(msg) < MaxRetriesConsumer THEN "delay" ELSE "dlq"

InFlight == { m \in MsgIds : msgs[m].place \in {"received", "publishing", "delay"} }

\* a message reaches the queue from outside the consumer: an outbox row
\* published by the dispatcher (no x-retry-count header), or a message another
\* publisher put on the exchange with the header set.  nullResults marks an
\* envelope with subscribed agents handled by a runner whose executeAgent is
\* bound to its last declaration.
Enqueue(m, via, xRetry, malformed, infra) ==
  /\ m = nextId
  /\ m \in MsgIds
  /\ via = "outbox" <=> xRetry = 0
  /\ ~(malformed /\ infra)
  /\ \E nullResults \in BOOLEAN :
       /\ nullResults => ~(malformed \/ infra)
       /\ msgs' = [msgs EXCEPT ![m] =
            [place |-> "queue", tenant_id |-> "t1", correlation_id |-> "k1",
             causation_id |-> 0, parent |-> 0, via |-> via, xRetryCount |-> xRetry,
             malformed |-> malformed, infraAlways |-> infra,
             nullResults |-> nullResults, deliveries |-> 0]]
  /\ nextId' = nextId + 1
  /\ UNCHANGED <<pending, restOfConsumer>>

\* the broker delivers a ready message to the consumer, within the prefetch
Deliver(m) ==
  /\ msgs[m].place = "queue"
  /\ Cardinality(InFlight) < PrefetchCount
  /\ msgs[m].deliveries < MaxDeliveries
  /\ msgs' = [msgs EXCEPT ![m] = [@ EXCEPT !.place = "received", !.deliveries = @ + 1]]
  /\ UNCHANGED <<pending, nextId, restOfConsumer>>

\* JSON.parse (or the first use of the parsed value) throws
ParseThrow(m) ==
  /\ msgs[m].place = "received"
  /\ msgs[m].malformed
  /\ msgs' = [msgs EXCEPT ![m] = [@ EXCEPT !.place = OnError(msgs[m])]]
  /\ UNCHANGED <<pending, nextId, restOfConsumer>>

\* the other value of a two-valued field
Other(S, x) == CHOOSE y \in S : y # x

\* the envelopes one agent may return for inbound m: none, or one built with
\* createEvent from the context (tenant, correlation, causation = the inbound's
\* event id), or one with one of these fields set to something else
AgentEvents(m) ==
  LET t == msgs[m].tenant_id
      k == msgs[m].correlation_id
  IN { <<>>,
       <<CreateEvent(0, t, k, m)>>,
       <<CreateEvent(0, Other(Tenants, t), k, m)>>,
       <<CreateEvent(0, t, Other(Correlations, k), m)>>,
       <<CreateEvent(0, t, k, 0)>> }

\* one invocation of an agent: what process() does, and the envelopes it
\* returns when it succeeds
AgentRuns(m) ==
  { [outcome |-> "success", events |-> ev] : ev \in AgentEvents(m) } \cup
  { [outcome |-> o, events |-> <<>>] : o \in AgentOutcomes \ {"success"} }

\* agentRunner.executeForEvent(event, context): every subscribed agent runs
\* and the runner hands back the envelopes they returned; randomUUID gives
\* each envelope a fresh event id
RunAgents(m, n) ==
  /\ msgs[m].place = "received"
  /\ ~msgs[m].malformed
  /\ ~msgs[m].nullResults
  /\ \E runs \in [1..n -> AgentRuns(m)] :
       /\ msgs[m].infraAlways => \A i \in 1..n : runs[i].outcome = "throws"
       /\ LET results == [i \in 1..n |-> ExecuteAgent(runs[i].outcome, runs[i].events)]
              raw == ExecuteForEvent(results).eventsToPublish
              fresh == [i \in 1..Len(raw) |-> [raw[i] EXCEPT !.event_id = nextId + i - 1]]
          IN /\ nextId + Len(raw) - 1 <= MaxMsgs
             /\ pending' = [pending EXCEPT ![m] = fresh]
             /\ nextId' = nextId + Len(raw)
  /\ msgs' = [msgs EXCEPT ![m] = [@ EXCEPT !.place = "publishing"]]
  /\ UNCHANGED restOfConsumer

\* agentRunner.executeForEvent throws: with executeAgent bound to its last
\* declaration the results of the subscribed agents are null and reading
\* r.result fails; handleMessage goes to its catch block
ExecuteForEventThrows(m) ==
  /\ msgs[m].place = "received"
  /\ msgs[m].nullResults
  /\ msgs' = [msgs EXCEPT ![m] = [@ EXCEPT !.place = OnError(msgs[m])]]
  /\ UNCHANGED <<pending, nextId, restOfConsumer>>

\* this.channel.publish('stockos.events', routingKey, JSON.stringify(newEvent),
\* headers): the envelope goes to the exchange as the agent built it
PublishDerived(m) ==
  /\ msgs[m].place = "publishing"
  /\ pending[m] # <<>>
  /\ LET e == Head(pending[m])
     IN msgs' = [msgs EXCEPT ![e.event_id] =
          [place |-> "queue", tenant_id |-> e.tenant_id,
           correlation_id |-> e.correlation_id, causation_id |-> e.causation_id,
           parent |-> m, via |-> "channel", xRetryCount |-> 0,
           malformed |-> FALSE, infraAlways |-> FALSE, nullResults |-> FALSE,
           deliveries |-> 0]]
  /\ pending' = [pending EXCEPT ![m] = Tail(@)]
  /\ UNCHANGED <<nextId, restOfConsumer>>

\* publishing a derived envelope throws (channel closed, envelope that cannot
\* be serialized): the remaining envelopes are dropped
PublishDerivedThrow(m) ==
  /\ msgs[m].place = "publishing"
  /\ pending[m] # <<>>
  /\ msgs' = [msgs EXCEPT ![m] = [@ EXCEPT !.place = OnError(msgs[m])]]
  /\ pending' = [pending EXCEPT ![m] = <<>>]
  /\ UNCHANGED <<nextId, restOfConsumer>>

AckMutant(m) ==
  /\ msgs[m].place = "publishing"
  /\ msgs' = [msgs EXCEPT ![m] = [@ EXCEPT !.place = "acked"]]
  /\ UNCHANGED <<pending, nextId, restOfConsumer>>

\* this.channel.ack(msg)
Ack(m) ==
  /\ msgs[m].place = "publishing"
  /\ pending[m] = <<>>
  /\ msgs' = [msgs EXCEPT ![m] = [@ EXCEPT !.place = "acked"]]
  /\ UNCHANGED <<pending, nextId, restOfConsumer>>

\* the setTimeout callback: nack(msg, false, true); the broker puts the
\* message back on the queue with the headers it had
NackRequeue(m) ==
  /\ msgs[m].place = "delay"
  /\ msgs' = [msgs EXCEPT ![m] = [@ EXCEPT !.place = "queue"]]
  /\ UNCHANGED <<pending, nextId, restOfConsumer>>

\* EventConsumer.stop, first await: channel.cancel(consumerTag); the broker
\* delivers nothing more to this consumer
StopCancel ==
  /\ consumerChannel = "consuming"
  /\ consumerChannel' = "cancelled"
  /\ UNCHANGED restOfChannel

\* EventConsumer.stop, second await: channel.close(); nothing in stop() looks
\* at the handlers that are running or at the nack timers that are pending
StopClose ==
  /\ consumerChannel = "cancelled"
  /\ consumerChannel' = "closed"
  /\ UNCHANGED restOfChannel

\* a handler or a nack timer uses the channel after close(): ack throws and
\* handleMessage goes to its catch block; the nack of the timer throws and
\* the delivery is left as it is
ChannelClosedThrows(m) ==
  /\ consumerChannel = "closed"
  /\ \/ /\ msgs[m].place = "publishing" /\ pending[m] = <<>>
        /\ msgs' = [msgs EXCEPT ![m] = [@ EXCEPT !.place = OnError(msgs[m])]]
     \/ /\ msgs[m].place = "delay"
        /\ msgs' = [msgs EXCEPT ![m] = [@ EXCEPT !.place = "unsettled"]]
  /\ UNCHANGED <<pending, nextId, restOfConsumer>>

\* ------------------------------------------------------ the agents' cascade

\* the INVENTORY_EVENTS object of the contracts package
INVENTORY_EVENTS ==
  [GOODS_RECEIVED |-> "Inventory.GoodsReceived",
   PUTAWAY_COMPLETED |-> "Inventory.PutawayCompleted",
   MOVEMENT_RECORDED |-> "Inventory.MovementRecorded",
   STOCK_ADJUSTED |-> "Inventory.StockAdjusted",
   STOCK_NEGATIVE_ATTEMPTED |-> "Inventory.StockNegativeAttempted",
   STOCK_NEGATIVE_OVERRIDDEN |-> "Inventory.StockNegativeOverridden",
   TRANSFER_INITIATED |-> "Inventory.TransferInitiated",
   TRANSFER_COMPLETED |-> "Inventory.TransferCompleted",
   RESERVATION_CREATED |-> "Inventory.ReservationCreated",
   RESERVATION_RELEASED |-> "Inventory.ReservationReleased",
   ALLOCATION_CREATED |-> "Inventory.AllocationCreated"]

\* INVENTORY_EVENTS.KEY as an agent reads it: a key the object does not have
\* reads as undefined
InventoryEvent(key) ==
  IF key \in DOMAIN INVENTORY_EVENTS THEN INVENTORY_EVENTS[key] ELSE "undefined"

\* the SALES_ORDER_EVENTS object of the contracts package
SALES_ORDER_EVENTS ==
  [CREATED |-> "SalesOrder.Created",
   ALLOCATED |-> "SalesOrder.Allocated",
   PICKING_STARTED |-> "SalesOrder.PickingStarted",
   PICKED |-> "SalesOrder.Picked",
   PACKED |-> "SalesOrder.Packed",
   SHIPPED |-> "SalesOrder.Shipped",
   DELIVERED |-> "SalesOrder.Delivered",
   CANCELLED |-> "SalesOrder.Cancelled"]

\* SALES_ORDER_EVENTS.KEY as an agent reads it
SalesOrderEvent(key) ==
  IF key \in DOMAIN SALES_ORDER_EVENTS THEN SALES_ORDER_EVENTS[key] ELSE "undefined"

\* RECEIVING_EVENTS.GOODS_RECEIVED
ReceivingGoodsReceived == "Receiving.GoodsReceived"

\* Each agent: its subscribesTo, and the event types of the eventsToPublish a
\* run that returns envelopes may hand back, in the order they are pushed.
StockUpdateAgent ==
  [subscribesTo |-> {InventoryEvent("MOVEMENT_RECORDED")},
   emits |-> {<<InventoryEvent("STOCK_LEVEL_CHANGED")>>}]

ThresholdAgent ==
  [subscribesTo |-> {InventoryEvent("STOCK_LEVEL_CHANGED")},
   emits |-> {<<InventoryEvent("LOW_STOCK_ALERT")>>,
              <<InventoryEvent("LOW_STOCK_ALERT"), InventoryEvent("LOW_STOCK_ALERT")>>,
              <<"OverstockAlertTriggered">>}]

SlottingAgent ==
  [subscribesTo |-> {ReceivingGoodsReceived, "SlottingSuggestionRequested"},
   emits |-> {<<"SlottingSuggestionsGenerated">>}]

ReservationAgent ==
  [subscribesTo |-> {SalesOrderEvent("ORDER_PLACED"), "ReservationRequested"},
   emits |-> {<<InventoryEvent("STOCK_RESERVED"), SalesOrderEvent("ORDER_FULLY_ALLOCATED")>>,
              <<InventoryEvent("STOCK_RESERVED"), SalesOrderEvent("ORDER_PARTIALLY_ALLOCATED")>>}]

LotExpiryAgent ==
  [subscribesTo |-> {"ScheduledExpiryCheck", InventoryEvent("STOCK_LEVEL_CHANGED")},
   emits |-> {<<InventoryEvent("LOT_EXPIRED")>>, <<"LotExpiryAlert">>,
              <<InventoryEvent("LOT_EXPIRED"), "LotExpiryAlert">>}]

PickWaveAgent ==
  [subscribesTo |-> {SalesOrderEvent("ORDER_FULLY_ALLOCATED"), "PickWaveRequested"},
   emits |-> {<<"PickWaveCreated">>}]

PackingAgent ==
  [subscribesTo |-> {"PickWaveCompleted", "PackingRequested"},
   emits |-> {<<"PackingInstructionsGenerated">>}]

ShippingAgent ==
  [subscribesTo |-> {"PackingCompleted", "ShipmentRequested"},
   emits |-> {<<InventoryEvent("MOVEMENT_RECORDED"), SalesOrderEvent("ORDER_SHIPPED")>>,
              <<SalesOrderEvent("ORDER_SHIPPED")>>}]

QualityControlAgent ==
  [subscribesTo |-> {ReceivingGoodsReceived, "QualityInspectionRequested"},
   emits |-> {<<"QualityInspectionCreated">>}]

QuarantineAgent ==
  [subscribesTo |-> {"QualityInspectionFailed", "DamageReported", "QuarantineRequested",
                     InventoryEvent("LOT_EXPIRED")},
   emits |-> {<<"ReservationCancelled", "StockQuarantined">>, <<"StockQuarantined">>}]

AbcXyzAgent ==
  [subscribesTo |-> {"ScheduledAbcXyzAnalysis", "AbcXyzAnalysisRequested"},
   emits |-> {<<"AbcXyzAnalysisCompleted">>}]

SafetyStockAgent ==
  [subscribesTo |-> {"ScheduledSafetyStockRecalc", "SafetyStockRecalcRequested"},
   emits |-> {<<"SafetyStockRecalculated">>}]

DemandForecastAgent ==
  [subscribesTo |-> {"ScheduledDemandForecast", "DemandForecastRequested"},
   emits |-> {<<"DemandForecastGenerated">>}]

\* registerAgents(): the thirteen agents, in the order they are registered
RegisteredAgents ==
  <<[name |-> "StockUpdateAgent", agent |-> StockUpdateAgent],
    [name |-> "ThresholdAgent", agent |-> ThresholdAgent],
    [name |-> "SlottingAgent", agent |-> SlottingAgent],
    [name |-> "ReservationAgent", agent |-> ReservationAgent],
    [name |-> "LotExpiryAgent", agent |-> LotExpiryAgent],
    [name |-> "PickWaveAgent", agent |-> PickWaveAgent],
    [name |-> "PackingAgent", agent |-> PackingAgent],
    [name |-> "ShippingAgent", agent |-> ShippingAgent],
    [name |-> "QualityControlAgent", agent |-> QualityControlAgent],
    [name |-> "QuarantineAgent", agent |-> QuarantineAgent],
    [name |-> "AbcXyzAgent", agent |-> AbcXyzAgent],
    [name |-> "SafetyStockAgent", agent |-> SafetyStockAgent],
    [name |-> "DemandForecastAgent", agent |-> DemandForecastAgent]>>

\* agentRegistry.getAgentsForEvent(eventType) after registerAgents(): the
\* subscribers of the type, in registration order (no agent declares '*')
SubscribedAgents(eventType) ==
  SelectSeq(RegisteredAgents, LAMBDA r : eventType \in r.agent.subscribesTo)

\* the event types commands, routes and the scheduler put on the exchange:
\* the subscribed types that are strings
RootTypes ==
  { t \in UNION { RegisteredAgents[i].agent.subscribesTo : i \in DOMAIN RegisteredAgents } :
      t # "undefined" }

NoCascade == [started |-> FALSE, queue |-> {}]

\* what one run of an agent may return for a delivery: nothing (a failure
\* result, or nothing to do) or one of its sequences; a lot is set to EXPIRED
\* by the run that reports it, so a redelivery does not report it again
Emits(r, redelivered) ==
  {<<>>} \cup
    IF r.name = "LotExpiryAgent" /\ redelivered
      THEN { e \in r.agent.emits : \A i \in DOMAIN e : e[i] # "undefined" }
      ELSE r.agent.emits

\* result.eventsToPublish of executeForEvent: the agents' envelopes, flat
RECURSIVE FlatMapTypes(_, _)
FlatMapTypes(agents, runs) ==
  IF agents = <<>> THEN <<>>
  ELSE [i \in DOMAIN Head(runs) |-> [event_type |-> Head(runs)[i], by |-> Head(agents).name]]
         \o FlatMapTypes(Tail(agents), Tail(runs))

\* the publish loop of handleMessage: newEvent.event_type.toLowerCase() throws
\* at the first envelope whose event_type is undefined; the envelopes before
\* it are on the exchange by then
RECURSIVE PublishedBeforeThrow(_)
PublishedBeforeThrow(events) ==
  IF events = <<>> \/ Head(events).event_type = "undefined" THEN <<>>
  ELSE <<Head(events)>> \o PublishedBeforeThrow(Tail(events))

\* a command, a route or the scheduler publishes the envelope that starts
\* the cascade
CascadeStart(t) ==
  /\ ~cascade.started
  /\ cascade' = [started |-> TRUE,
                 queue |-> {[event_type |-> t, chain |-> {}, place |-> "queue",
                             redelivered |-> FALSE]}]
  /\ UNCHANGED restOfCascade

\* handleMessage on the delivery env: the subscribed agents run, their
\* envelopes are published, and the delivery is acked; when the publish loop
\* throws, the catch block arms the nack timer (a delivery from the exchange
\* has no x-retry-count header, and a requeue does not add one)
CascadeHandle(env) ==
  /\ env \in cascade.queue
  /\ env.place = "queue"
  /\ LET agents == SubscribedAgents(env.event_type)
     IN \E runs \in [DOMAIN agents -> UNION { Emits(agents[i], env.redelivered) : i \in DOMAIN agents }] :
          /\ \A i \in DOMAIN agents : runs[i] \in Emits(agents[i], env.redelivered)
          /\ LET events == FlatMapTypes(agents, runs)
                 published == PublishedBeforeThrow(events)
                 derived == { [event_type |-> published[i].event_type,
                               chain |-> env.chain \cup {published[i].by},
                               place |-> "queue", redelivered |-> FALSE] :
                              i \in DOMAIN published }
             IN cascade' =
                  [cascade EXCEPT !.queue =
                     IF Len(published) = Len(events)
                       THEN (@ \ {env}) \cup derived
                       ELSE (@ \ {env}) \cup derived \cup {[env EXCEPT !.place = "delay"]}]
  /\ UNCHANGED restOfCascade

\* the nack timer of the catch block fires: nack(msg, false, true), the
\* broker redelivers the message
CascadeRequeue(env) ==
  /\ env \in cascade.queue
  /\ env.place = "delay"
  /\ cascade' = [cascade EXCEPT !.queue =
                   (@ \ {env}) \cup {[env EXCEPT !.place = "queue", !.redelivered = TRUE]}]
  /\ UNCHANGED restOfCascade

\* ------------------------------------------------------------ stock levels

\* payload: { days_to_keep: 7 } of the outbox-cleanup job
DaysToKeep == 7

\* rowVersion of a row created without one (column default of stock_levels)
DefaultRowVersion == 1

Locs == {"L1", "L2"}
Callers == 1..MaxCallers
EventIds == 1..MaxEvents
Quantities == 1..MaxQuantity
NoLevel == [rowVersion |-> 0]
NoDelta == [onHand |-> 0, reserved |-> 0]
NoCall ==
  [pc |-> "idle", id |-> "null", delta |-> NoDelta, expectedVersion |-> 0,
   current |-> NoLevel, result |-> "none"]
NoEnvelope == [movement_type |-> "none"]

\* InventoryService.getOrCreateStockLevel: an existing row is returned as it
\* is, a missing one is created empty at rowVersion 1.
GetOrCreateStockLevel(l) ==
  /\ stockLevels' =
       IF stockLevels[l] # NoLevel
         THEN stockLevels
         ELSE [stockLevels EXCEPT ![l] =
                 [quantityOnHand |-> 0, quantityReserved |-> 0,
                  quantityAvailable |-> 0, rowVersion |-> 1]]
  /\ UNCHANGED <<adj, envs, passes, restOfStock>>

\* InventoryService.adjustQuantity: the delta map built from the type
DeltaMap(type, delta) ==
  [onHand |-> IF type = "on_hand" THEN delta ELSE 0,
   reserved |-> IF type = "reserved" THEN delta ELSE 0]

\* adjustQuantity calls repository.updateQuantities(id, deltaMap, expectedVersion)
AdjustQuantity(a, l, type, delta, expectedVersion) ==
  /\ adj[a] = NoCall
  /\ adj' = [adj EXCEPT ![a] =
               [NoCall EXCEPT !.pc = "findUnique", !.id = l,
                              !.delta = DeltaMap(type, delta),
                              !.expectedVersion = expectedVersion]]
  /\ UNCHANGED <<stockLevels, envs, passes, restOfStock>>

\* updateQuantities: const current = await prisma.stockLevel.findUnique(...)
FindUnique(a) ==
  /\ adj[a].pc = "findUnique"
  /\ adj' = [adj EXCEPT ![a].pc = "check", ![a].current = stockLevels[adj[a].id]]
  /\ UNCHANGED <<stockLevels, envs, passes, restOfStock>>

\* The row written by updateQuantities: quantities from the row that was
\* read, rowVersion incremented in the database.
UpdatedLevel(current, delta, stored) ==
  LET newOnHand == current.quantityOnHand + delta.onHand
      newReserved == current.quantityReserved + delta.reserved
  IN  [quantityOnHand |-> newOnHand,
       quantityReserved |-> newReserved,
       quantityAvailable |-> newOnHand - newReserved,
       rowVersion |-> stored.rowVersion + 1]

\* updateQuantities after the read: the two checks on the row that was read,
\* then update({ where: { id } }).
UpdateQuantities(a) ==
  LET c == adj[a] IN
  /\ c.pc = "check"
  /\ IF c.current = NoLevel
       THEN /\ adj' = [adj EXCEPT ![a].pc = "done", ![a].result = "Error: not found"]
            /\ UNCHANGED stockLevels
       ELSE IF c.current.rowVersion # c.expectedVersion
         THEN /\ adj' = [adj EXCEPT ![a].pc = "done",
                                    ![a].result = "Error: Optimistic lock conflict"]
              /\ UNCHANGED stockLevels
         ELSE /\ stockLevels' =
                   [stockLevels EXCEPT ![c.id] =
                      UpdatedLevel(c.current, c.delta, stockLevels[c.id])]
              /\ adj' = [adj EXCEPT ![a].pc = "done", ![a].result = "committed"]
  /\ UNCHANGED <<envs, passes, restOfStock>>

\* ------------------------------------------------------- stock update agent

MovementTypes ==
  {"RECEIPT", "PUTAWAY", "PICK", "PACK", "SHIP", "TRANSFER_OUT", "TRANSFER_IN",
   "ADJUSTMENT_PLUS", "ADJUSTMENT_MINUS", "RETURN", "DAMAGE", "EXPIRED",
   "CYCLE_COUNT", "RESERVE", "UNRESERVE", "QUARANTINE_IN", "QUARANTINE_OUT",
   "SCRAP", "CONSUME"}

\* StockUpdateAgent.getMovementEffect
GetMovementEffect(movementType) ==
  IF movementType \in {"RECEIPT", "TRANSFER_IN", "RETURN", "ADJUSTMENT_PLUS",
                       "QUARANTINE_OUT"}
    THEN [decreasesSource |-> FALSE, increasesDestination |-> TRUE]
  ELSE IF movementType \in {"SHIP", "TRANSFER_OUT", "DAMAGE", "EXPIRED",
                            "ADJUSTMENT_MINUS", "SCRAP", "CONSUME", "QUARANTINE_IN"}
    THEN [decreasesSource |-> TRUE, increasesDestination |-> FALSE]
  ELSE IF movementType \in {"PUTAWAY", "PICK", "PACK"}
    THEN [decreasesSource |-> TRUE, increasesDestination |-> TRUE]
  ELSE [decreasesSource |-> FALSE, increasesDestination |-> FALSE]

\* StockUpdateAgent.adjustStockLevel on the table value `levels`
AdjustStockLevel(levels, locationId, delta) ==
  LET existing == levels[locationId] IN
  IF existing # NoLevel
    THEN LET newOnHand == existing.quantityOnHand + delta IN
         [levels EXCEPT ![locationId] =
            [existing EXCEPT !.quantityOnHand = newOnHand,
                             !.quantityAvailable = newOnHand - existing.quantityReserved,
                             !.rowVersion = existing.rowVersion + 1]]
  ELSE IF delta > 0
    THEN [levels EXCEPT ![locationId] =
            [quantityOnHand |-> delta, quantityReserved |-> 0,
             quantityAvailable |-> delta, rowVersion |-> DefaultRowVersion]]
  ELSE levels

\* StockUpdateAgent.updateStockLevels: source first, then destination
UpdateStockLevels(levels, payload) ==
  LET effect == GetMovementEffect(payload.movement_type)
      afterSource ==
        IF effect.decreasesSource /\ payload.from_location_id # "null"
          THEN AdjustStockLevel(levels, payload.from_location_id, -payload.quantity)
          ELSE levels
  IN  IF effect.increasesDestination /\ payload.to_location_id # "null"
        THEN AdjustStockLevel(afterSource, payload.to_location_id, payload.quantity)
        ELSE afterSource

\* A MovementRecorded envelope with event_id e reaches the agent processor.
MovementRecorded(e, type, quantity, from, to) ==
  /\ envs[e] = NoEnvelope
  /\ envs' = [envs EXCEPT ![e] =
                [movement_type |-> type, quantity |-> quantity,
                 from_location_id |-> from, to_location_id |-> to]]
  /\ UNCHANGED <<stockLevels, adj, passes, restOfStock>>

\* StockUpdateAgent.process on the envelope with event_id e: the whole
\* prisma.$transaction; the agent keeps no record of the event_id.
StockUpdateAgentProcess(e) ==
  /\ envs[e] # NoEnvelope
  /\ passes[e] < MaxRuns
  /\ stockLevels' = UpdateStockLevels(stockLevels, envs[e])
  /\ passes' = [passes EXCEPT ![e] = @ + 1]
  /\ UNCHANGED <<adj, envs, restOfStock>>

\* ------------------------------------------------------------ FEFO allocator

\* Dates are counted in half days from the allocator's referenceDate; a day
\* (1000 * 60 * 60 * 24 ms) is two of them.
TicksPerDay == 2

NoLot ==
  [id |-> 0, status |-> "none", hasExpiration |-> FALSE, expirationDate |-> 0,
   receivedAt |-> 0]
NoFefo == [called |-> FALSE]

\* Math.min
Min(a, b) == IF a <= b THEN a ELSE b

\* Array.prototype.includes on a list
Includes(list, x) == \E i \in DOMAIN list : list[i] = x

\* isLotExpired(lot, referenceDate): no expiration date, or not yet passed
IsLotExpired(lot) ==
  IF ~lot.hasExpiration THEN FALSE ELSE lot.expirationDate < 0

\* isLotAvailable(lot, referenceDate)
IsLotAvailable(lot) ==
  IF lot.status # "AVAILABLE" /\ lot.status # "RELEASED" THEN FALSE
  ELSE ~IsLotExpired(lot)

CompareLotsByFEFOMutant(a, b) ==
  IF ~a.hasExpiration /\ ~b.hasExpiration THEN a.receivedAt - b.receivedAt
  ELSE IF ~a.hasExpiration THEN 1
  ELSE IF ~b.hasExpiration THEN -1
  ELSE b.expirationDate - a.expirationDate

\* compareLotsByFEFO: lots without expiration last, those by receivedAt
CompareLotsByFEFO(a, b) ==
  IF ~a.hasExpiration /\ ~b.hasExpiration THEN a.receivedAt - b.receivedAt
  ELSE IF ~a.hasExpiration THEN 1
  ELSE IF ~b.hasExpiration THEN -1
  ELSE a.expirationDate - b.expirationDate

\* FefoAllocator.calculateDaysToExpiration: Math.ceil(diffMs / one day)
CalculateDaysToExpiration(expirationDate) ==
  -((-expirationDate) \div TicksPerDay)

\* the comparator of the first sort of filterAndSortSources
ComparePreferred(a, b, request) ==
  LET aPreferred == Includes(request.preferredLocations, a.locationId)
      bPreferred == Includes(request.preferredLocations, b.locationId)
  IN  IF aPreferred /\ ~bPreferred THEN -1
      ELSE IF ~aPreferred /\ bPreferred THEN 1
      ELSE 0

\* the comparator of the second sort of filterAndSortSources
CompareFefo(a, b, request) ==
  LET aPreferred == Includes(request.preferredLocations, a.locationId)
      bPreferred == Includes(request.preferredLocations, b.locationId)
  IN  IF aPreferred # bPreferred THEN (IF aPreferred THEN -1 ELSE 1)
      ELSE IF a.lotBatch # NoLot /\ b.lotBatch # NoLot
        THEN CompareLotsByFEFO(a.lotBatch, b.lotBatch)
      ELSE IF a.lotBatch # NoLot THEN -1
      ELSE IF b.lotBatch # NoLot THEN 1
      ELSE 0

Compare(pass, a, b, request) ==
  IF pass = "preferred" THEN ComparePreferred(a, b, request)
  ELSE CompareFefo(a, b, request)

\* Array.prototype.sort is stable: x goes behind every element that does not
\* compare greater than it
RECURSIVE InsertStable(_, _, _, _)
InsertStable(x, sorted, pass, request) ==
  IF sorted = <<>> THEN <<x>>
  ELSE IF Compare(pass, Head(sorted), x, request) <= 0
    THEN <<Head(sorted)>> \o InsertStable(x, Tail(sorted), pass, request)
  ELSE <<x>> \o sorted

RECURSIVE StableSort(_, _, _)
StableSort(list, pass, request) ==
  IF list = <<>> THEN <<>>
  ELSE InsertStable(list[Len(list)],
                    StableSort(SubSeq(list, 1, Len(list) - 1), pass, request),
                    pass, request)

\* the filter of filterAndSortSources (product, warehouse and variant are
\* compared the same way; the model varies the product)
MatchesRequest(source, request) == source.productId = request.productId

\* FefoAllocator.filterAndSortSources
FilterAndSortSources(sources, request) ==
  LET filtered == SelectSeq(sources, LAMBDA src : MatchesRequest(src, request))
      byPreferred ==
        IF Len(request.preferredLocations) > 0
          THEN StableSort(filtered, "preferred", request)
          ELSE filtered
  IN  StableSort(byPreferred, "fefo", request)

\* the reason a source is skipped by the loop of allocate, or "none"
SkipReason(source, request, minDaysToExpiration) ==
  LET lot == source.lotBatch IN
  IF source.quantityAvailable <= 0 THEN "No available quantity"
  ELSE IF lot # NoLot /\ ~IsLotAvailable(lot) THEN "Lot not available"
  ELSE IF /\ lot # NoLot
          /\ lot.hasExpiration
          /\ CalculateDaysToExpiration(lot.expirationDate) < minDaysToExpiration
    THEN "Too close to expiration"
  ELSE IF lot # NoLot /\ lot.id \in request.excludedLots THEN "Lot excluded by request"
  ELSE "none"

AllocateQtyMutant(remainingQty, source) == source.quantityAvailable

\* const allocateQty = Math.min(remainingQty, stockLevel.quantityAvailable)
AllocateQty(remainingQty, source) == Min(remainingQty, source.quantityAvailable)

\* the for loop of allocate over the sorted sources
RECURSIVE AllocateLoop(_, _, _, _)
AllocateLoop(validSources, request, minDaysToExpiration, acc) ==
  IF validSources = <<>> \/ acc.remainingQty <= 0 THEN acc
  ELSE
    LET source == Head(validSources)
        reason == SkipReason(source, request, minDaysToExpiration)
        allocateQty == AllocateQty(acc.remainingQty, source)
    IN  IF reason # "none"
          THEN AllocateLoop(Tail(validSources), request, minDaysToExpiration,
                 [acc EXCEPT !.skippedSources =
                    Append(@, [reason |-> reason, stockLevelId |-> source.id])])
          ELSE AllocateLoop(Tail(validSources), request, minDaysToExpiration,
                 [acc EXCEPT !.allocations =
                    Append(@, [stockLevelId |-> source.id,
                               locationId |-> source.locationId,
                               lotBatchId |-> source.lotBatch.id,
                               quantity |-> allocateQty]),
                             !.remainingQty = @ - allocateQty])

\* FefoAllocator.allocate
Allocate(request, sources, minDaysToExpiration) ==
  LET validSources == FilterAndSortSources(sources, request)
      end == AllocateLoop(validSources, request, minDaysToExpiration,
               [remainingQty |-> request.requestedQuantity,
                allocations |-> <<>>, skippedSources |-> <<>>])
      allocatedQuantity == request.requestedQuantity - end.remainingQty
  IN  [success |-> allocatedQuantity > 0,
       fullyAllocated |-> end.remainingQty = 0,
       requestedQuantity |-> request.requestedQuantity,
       allocatedQuantity |-> allocatedQuantity,
       shortfallQuantity |-> end.remainingQty,
       allocations |-> end.allocations,
       skippedSources |-> end.skippedSources]

\* allocateWithFefo: new FefoAllocator(options).allocate(request, sources);
\* the constructor reads minDaysToExpiration from the options, 0 when unset
AllocateWithFefo(request, sources, options) ==
  Allocate(request, sources,
           IF options.hasMinDays THEN options.minDaysToExpiration ELSE 0)

\* the total of a list of quantities (allocation lines, available stock)
RECURSIVE SumQuantities(_)
SumQuantities(list) ==
  IF list = <<>> THEN 0 ELSE Head(list) + SumQuantities(Tail(list))

\* the lots a candidate source may carry
LotChoices ==
  {NoLot} \cup
  { [id |-> 1, status |-> st, hasExpiration |-> TRUE, expirationDate |-> d,
     receivedAt |-> 0] : st \in {"AVAILABLE", "QUARANTINE"}, d \in {-1, 5, 20} } \cup
  { [id |-> 1, status |-> st, hasExpiration |-> FALSE, expirationDate |-> 0,
     receivedAt |-> r] : st \in {"AVAILABLE", "QUARANTINE"}, r \in {1, 2} }

SourceChoices ==
  { [id |-> 1, productId |-> p, locationId |-> l, quantityAvailable |-> q,
     lotBatch |-> lot] :
      p \in {"P1", "P2"}, l \in Locs, q \in {0, MaxQuantity}, lot \in LotChoices }

\* stock level i is paired with lot i
NumberSources(choice) ==
  [i \in DOMAIN choice |->
     [choice[i] EXCEPT !.id = i,
                       !.lotBatch = IF @ = NoLot THEN NoLot ELSE [@ EXCEPT !.id = i]]]

\* the call of allocateWithFefo(request, sources, options) under study
CallAllocateWithFefo(request, sources, options) ==
  /\ ~fefo.called
  /\ fefo' = [called |-> TRUE, request |-> request, sources |-> sources,
              options |-> options,
              result |-> AllocateWithFefo(request, sources, options)]
  /\ UNCHANGED restOfFefo

\* ------------------------------------------------------------- reservations

ResIds == 1..MaxReservations
NoReservation == [status |-> "NONE"]
NoFulfil ==
  [pc |-> "idle", id |-> 0, quantityToFulfill |-> 0, reservation |-> NoReservation,
   result |-> "none"]

\* the location of type QUARANTINE that QuarantineAgent.process looks up
QuarantineLocation == "L2"

\* reservation ids in use; rows are never deleted, so they are 1..n
UsedResIds == { r \in ResIds : reservations[r] # NoReservation }

\* the ACTIVE reservations among `rows` that cover stock level l
ActiveOn(rows, l) ==
  { r \in ResIds : /\ rows[r] # NoReservation
                   /\ rows[r].status = "ACTIVE"
                   /\ rows[r].stockLevelId = l }

\* the cap on the rowVersion counters
VersionsBelowCap == \A l \in Locs : stockLevels[l].rowVersion <= MaxRowVersion

\* ReservationAgent.reserveForLine: the stock levels with quantityAvailable > 0
\* become the FEFO sources (in the order the query returned them), and every
\* allocation line moves its quantity from available to reserved and creates
\* an ACTIVE reservation.
ReserveForLine(quantity) ==
  \E order \in SeqsOf({ l \in Locs : /\ stockLevels[l] # NoLevel
                                     /\ stockLevels[l].quantityAvailable > 0 }) :
    LET sources == [i \in DOMAIN order |->
                      [id |-> order[i], productId |-> "P1", locationId |-> order[i],
                       quantityAvailable |-> stockLevels[order[i]].quantityAvailable,
                       lotBatch |-> NoLot]]
        request == [productId |-> "P1", requestedQuantity |-> quantity,
                    preferredLocations |-> <<>>, excludedLots |-> {},
                    minDaysToExpiration |-> 7]
        allocation == AllocateWithFefo(request, sources,
                        [hasMinDays |-> FALSE, minDaysToExpiration |-> 0])
        lines == allocation.allocations
        base == Cardinality(UsedResIds)
        LineOf(l) == CHOOSE k \in DOMAIN lines : lines[k].stockLevelId = l
    IN  /\ VersionsBelowCap
        /\ base + Len(lines) <= MaxReservations
        /\ stockLevels' =
             [l \in Locs |->
                IF \E k \in DOMAIN lines : lines[k].stockLevelId = l
                  THEN [stockLevels[l] EXCEPT
                          !.quantityReserved = @ + lines[LineOf(l)].quantity,
                          !.quantityAvailable = @ - lines[LineOf(l)].quantity,
                          !.rowVersion = @ + 1]
                  ELSE stockLevels[l]]
        /\ reservations' =
             [r \in ResIds |->
                IF r > base /\ r <= base + Len(lines)
                  THEN [stockLevelId |-> lines[r - base].stockLevelId,
                        quantity |-> lines[r - base].quantity,
                        quantityFulfilled |-> 0, status |-> "ACTIVE"]
                  ELSE reservations[r]]
        /\ UNCHANGED <<ful, restOfReserve>>

\* ------------------------------------------- concurrent agent transactions

\* The consumer runs up to prefetchCount handlers at once, each in its own
\* prisma.$transaction (READ COMMITTED): a handler's read and its writes are
\* two steps, and other handlers' commits may fall between them.
NoTransaction == [pc |-> "idle"]

\* ReservationAgent.reserveForLine, the read: tx.stockLevel.findMany of the
\* rows with quantityAvailable > 0 (in the order the query returns them)
ReserveFindMany(c, quantity) ==
  /\ txn[c] = NoTransaction
  /\ VersionsBelowCap
  /\ \E order \in SeqsOf({ l \in Locs : /\ stockLevels[l] # NoLevel
                                        /\ stockLevels[l].quantityAvailable > 0 }) :
       txn' = [txn EXCEPT ![c] =
                 [pc |-> "reserving", quantity |-> quantity,
                  sources |-> [i \in DOMAIN order |->
                                 [id |-> order[i], productId |-> "P1",
                                  locationId |-> order[i],
                                  quantityAvailable |-> stockLevels[order[i]].quantityAvailable,
                                  lotBatch |-> NoLot]]]]
  /\ UNCHANGED <<stockLevels, reservations, passes, restOfTxn>>

\* ReservationAgent.reserveForLine, the writes and the commit: the allocation
\* computed from the rows as they were read; every line increments
\* quantityReserved and decrements quantityAvailable of the row as it is now
\* (the update has no rowVersion in its where clause) and creates an ACTIVE
\* reservation.
ReserveUpdate(c) ==
  /\ txn[c].pc = "reserving"
  /\ LET request == [productId |-> "P1", requestedQuantity |-> txn[c].quantity,
                     preferredLocations |-> <<>>, excludedLots |-> {},
                     minDaysToExpiration |-> 7]
         allocation == AllocateWithFefo(request, txn[c].sources,
                         [hasMinDays |-> FALSE, minDaysToExpiration |-> 0])
         lines == allocation.allocations
         base == Cardinality(UsedResIds)
         LineOf(l) == CHOOSE k \in DOMAIN lines : lines[k].stockLevelId = l
     IN  /\ base + Len(lines) <= MaxReservations
         /\ stockLevels' =
              [l \in Locs |->
                 IF \E k \in DOMAIN lines : lines[k].stockLevelId = l
                   THEN [stockLevels[l] EXCEPT
                           !.quantityReserved = @ + lines[LineOf(l)].quantity,
                           !.quantityAvailable = @ - lines[LineOf(l)].quantity,
                           !.rowVersion = @ + 1]
                   ELSE stockLevels[l]]
         /\ reservations' =
              [r \in ResIds |->
                 IF r > base /\ r <= base + Len(lines)
                   THEN [stockLevelId |-> lines[r - base].stockLevelId,
                         quantity |-> lines[r - base].quantity,
                         quantityFulfilled |-> 0, status |-> "ACTIVE"]
                   ELSE reservations[r]]
  /\ txn' = [txn EXCEPT ![c] = NoTransaction]
  /\ UNCHANGED <<passes, restOfTxn>>

\* StockUpdateAgent.adjustStockLevel for the envelope with event_id e, the
\* read: tx.stockLevel.findFirst of the row of the destination location
AdjustFindFirst(c, e) ==
  /\ txn[c] = NoTransaction
  /\ VersionsBelowCap
  /\ envs[e] # NoEnvelope
  /\ passes[e] < MaxRuns
  /\ GetMovementEffect(envs[e].movement_type) =
       [decreasesSource |-> FALSE, increasesDestination |-> TRUE]
  /\ stockLevels[envs[e].to_location_id] # NoLevel
  /\ txn' = [txn EXCEPT ![c] =
               [pc |-> "adjusting", e |-> e, locationId |-> envs[e].to_location_id,
                delta |-> envs[e].quantity,
                existing |-> stockLevels[envs[e].to_location_id]]]
  /\ UNCHANGED <<stockLevels, reservations, passes, restOfTxn>>

\* StockUpdateAgent.adjustStockLevel, the write and the commit: quantityOnHand
\* and quantityAvailable are set to values computed from the row as it was
\* read, rowVersion is incremented in place.
AdjustUpdate(c) ==
  /\ txn[c].pc = "adjusting"
  /\ LET existing == txn[c].existing
         newOnHand == existing.quantityOnHand + txn[c].delta
     IN  stockLevels' =
           [stockLevels EXCEPT ![txn[c].locationId] =
              [@ EXCEPT !.quantityOnHand = newOnHand,
                        !.quantityAvailable = newOnHand - existing.quantityReserved,
                        !.rowVersion = @ + 1]]
  /\ passes' = [passes EXCEPT ![txn[c].e] = @ + 1]
  /\ txn' = [txn EXCEPT ![c] = NoTransaction]
  /\ UNCHANGED <<reservations, restOfTxn>>

\* the loop of ShippingAgent.process over the ACTIVE reservations of the
\* order for one shipped item
RECURSIVE ShipLoop(_, _, _)
ShipLoop(found, remainingQty, acc) ==
  IF found = <<>> \/ remainingQty <= 0 THEN acc
  ELSE
    LET r == Head(found)
        res == reservations[r]
        fulfillQty == Min(remainingQty, res.quantity - res.quantityFulfilled)
        newFulfilled == res.quantityFulfilled + fulfillQty
    IN  ShipLoop(Tail(found), remainingQty - fulfillQty,
          [levels |-> [acc.levels EXCEPT ![res.stockLevelId] =
                         [@ EXCEPT !.quantityOnHand = @ - fulfillQty,
                                   !.quantityReserved = @ - fulfillQty,
                                   !.rowVersion = @ + 1]],
           rows |-> [acc.rows EXCEPT ![r] =
                       [@ EXCEPT !.quantityFulfilled = newFulfilled,
                                 !.status = IF newFulfilled >= res.quantity
                                              THEN "FULFILLED" ELSE "ACTIVE"]]])

\* ShippingAgent.process for one package item of `quantity` units
ShippingAgentProcess(quantity) ==
  \E found \in SeqsOf({ r \in ResIds : /\ reservations[r] # NoReservation
                                       /\ reservations[r].status = "ACTIVE" }) :
    LET end == ShipLoop(found, quantity, [levels |-> stockLevels, rows |-> reservations])
    IN  /\ VersionsBelowCap
        /\ found # <<>>
        /\ stockLevels' = end.levels
        /\ reservations' = end.rows
        /\ UNCHANGED <<ful, restOfReserve>>

NoShipment == [done |-> FALSE]

\* the MovementRecorded envelopes the loop of ShippingAgent.process pushes:
\* one of type SHIP for every reservation it fulfils from, with the location
\* of the reservation's stock level as from_location_id and no lot_batch_id
RECURSIVE ShipEvents(_, _)
ShipEvents(found, remainingQty) ==
  IF found = <<>> \/ remainingQty <= 0 THEN <<>>
  ELSE
    LET res == reservations[Head(found)]
        fulfillQty == Min(remainingQty, res.quantity - res.quantityFulfilled)
    IN  <<[movement_type |-> "SHIP", quantity |-> fulfillQty,
           from_location_id |-> res.stockLevelId, to_location_id |-> "null"]>>
        \o ShipEvents(Tail(found), remainingQty - fulfillQty)

\* the event ids no envelope has yet, and the i-th of them
FreeEventIds == { e \in EventIds : envs[e] = NoEnvelope }
NthFreeEventId(i) ==
  CHOOSE e \in FreeEventIds : Cardinality({ f \in FreeEventIds : f < e }) = i - 1

\* the handling of one ShipmentRequested envelope with one package item of
\* `quantity` units: the transaction of ShippingAgent.process, and the
\* MovementRecorded envelopes it returns, published by the consumer
ShipmentRequested(quantity) ==
  /\ ~ship.done
  /\ \E found \in SeqsOf({ r \in ResIds : /\ reservations[r] # NoReservation
                                          /\ reservations[r].status = "ACTIVE" }) :
       LET end == ShipLoop(found, quantity, [levels |-> stockLevels, rows |-> reservations])
           events == ShipEvents(found, quantity)
           ids == { NthFreeEventId(i) : i \in DOMAIN events }
       IN  /\ VersionsBelowCap
           /\ found # <<>>
           /\ Len(events) <= Cardinality(FreeEventIds)
           /\ stockLevels' = end.levels
           /\ reservations' = end.rows
           /\ envs' = [e \in EventIds |->
                         IF e \in ids
                           THEN events[CHOOSE i \in DOMAIN events : NthFreeEventId(i) = e]
                           ELSE envs[e]]
           /\ ship' = [done |-> TRUE, quantity |-> quantity, before |-> stockLevels,
                       events |-> ids,
                       shipped |-> [l \in Locs |->
                          SumQuantities([i \in DOMAIN events |->
                            IF events[i].from_location_id = l
                              THEN events[i].quantity ELSE 0])]]
  /\ UNCHANGED restOfShip

\* ReservationService.cancelReservation
CancelReservation(r) ==
  /\ reservations[r] # NoReservation
  /\ reservations[r].status = "ACTIVE"
  /\ reservations' = [reservations EXCEPT ![r].status = "CANCELLED"]
  /\ UNCHANGED <<stockLevels, ful, restOfReserve>>

\* ReservationService.fulfillReservation up to its first write: findById and
\* the three checks on the row that was read; a failed check throws and the
\* call is over
FulfillReservation(a, r, quantityToFulfill) ==
  LET reservation == reservations[r] IN
  /\ ful[a].pc = "idle"
  /\ ful' =
       IF \/ reservation = NoReservation
          \/ reservation.status # "ACTIVE"
          \/ quantityToFulfill > reservation.quantity - reservation.quantityFulfilled
         THEN ful
         ELSE [ful EXCEPT ![a] =
                 [NoFulfil EXCEPT !.pc = "updateFulfilled", !.id = r,
                                  !.quantityToFulfill = quantityToFulfill,
                                  !.reservation = reservation]]
  /\ UNCHANGED <<stockLevels, reservations, restOfReserve>>

\* await this.repository.updateFulfilled(id, newFulfilled)
UpdateFulfilled(a) ==
  LET c == ful[a]
      newFulfilled == c.reservation.quantityFulfilled + c.quantityToFulfill
  IN  /\ c.pc = "updateFulfilled"
      /\ reservations' = [reservations EXCEPT ![c.id].quantityFulfilled = newFulfilled]
      /\ ful' = [ful EXCEPT ![a].pc = "updateStatus"]
      /\ UNCHANGED <<stockLevels, restOfReserve>>

\* if (newFulfilled >= reservation.quantity) updateStatus(id, 'FULFILLED')
UpdateStatus(a) ==
  LET c == ful[a]
      newFulfilled == c.reservation.quantityFulfilled + c.quantityToFulfill
  IN  /\ c.pc = "updateStatus"
      /\ reservations' =
           IF newFulfilled >= c.reservation.quantity
             THEN [reservations EXCEPT ![c.id].status = "FULFILLED"]
             ELSE reservations
      /\ ful' = [ful EXCEPT ![a].pc = "done", ![a].result = "ok"]
      /\ UNCHANGED <<stockLevels, restOfReserve>>

\* the loop of QuarantineAgent.process over the stock rows it read
RECURSIVE QuarantineLoop(_, _, _)
QuarantineLoop(stocks, quantity, acc) ==
  IF stocks = <<>> THEN acc
  ELSE
    LET l == Head(stocks)
        stock == stockLevels[l]
        quantityToQuarantine ==
          IF quantity # 0
            THEN Min(quantity - acc.totalQuarantined, stock.quantityOnHand)
            ELSE stock.quantityOnHand
        cancelled ==
          IF stock.quantityReserved > 0
            THEN [r \in ResIds |->
                    IF r \in ActiveOn(acc.rows, l)
                      THEN [acc.rows[r] EXCEPT !.status = "CANCELLED",
                                               !.quantityFulfilled = 0]
                      ELSE acc.rows[r]]
            ELSE acc.rows
        decreased ==
          [acc.levels EXCEPT ![l] =
             [@ EXCEPT !.quantityOnHand = @ - quantityToQuarantine,
                       !.quantityAvailable = @ - quantityToQuarantine,
                       !.quantityReserved = 0,
                       !.rowVersion = @ + 1]]
        upserted ==
          IF decreased[QuarantineLocation] # NoLevel
            THEN [decreased EXCEPT ![QuarantineLocation] =
                    [@ EXCEPT !.quantityOnHand = @ + quantityToQuarantine,
                              !.quantityAvailable = @ + quantityToQuarantine,
                              !.rowVersion = @ + 1]]
            ELSE [decreased EXCEPT ![QuarantineLocation] =
                    [quantityOnHand |-> quantityToQuarantine, quantityReserved |-> 0,
                     quantityAvailable |-> quantityToQuarantine,
                     rowVersion |-> DefaultRowVersion]]
        total == acc.totalQuarantined + quantityToQuarantine
        next == [levels |-> upserted, rows |-> cancelled, totalQuarantined |-> total]
    IN  IF quantityToQuarantine <= 0 THEN QuarantineLoop(Tail(stocks), quantity, acc)
        ELSE IF quantity # 0 /\ total >= quantity THEN next
        ELSE QuarantineLoop(Tail(stocks), quantity, next)

\* QuarantineAgent.process: the stock rows with quantityOnHand > 0 (of the
\* payload's location when it names one) are moved to the quarantine location;
\* payload.quantity 0 stands for an absent quantity, which is equally falsy
QuarantineAgentProcess(location_id, quantity) ==
  \E stocks \in SeqsOf({ l \in Locs : /\ stockLevels[l] # NoLevel
                                      /\ stockLevels[l].quantityOnHand > 0
                                      /\ location_id \in {"null", l} }) :
    LET end == QuarantineLoop(stocks, quantity,
                 [levels |-> stockLevels, rows |-> reservations, totalQuarantined |-> 0])
    IN  /\ VersionsBelowCap
        /\ stocks # <<>>
        /\ stockLevels' = end.levels
        /\ reservations' = end.rows
        /\ UNCHANGED <<ful, restOfReserve>>

\* ------------------------------------------------------------ agent runner

\* the agents getAgentsForEvent returned, in the order of the list
AgentIds == 1..MaxSubscribed

\* AgentRunner declares executeAgent twice: (agent, event, context) at the
\* head of the class and (agentName, event, context) at its end.  The call
\* this.executeAgent(agent, event, context) of executeAgents was written for
\* the first; a class body binds a name to its last declaration.  Both
\* bindings are followed.
Bindings == {"first", "last"}

\* what BaseAgent.handle settles with in a run of the runner
HandlerOutcomes == {"success", "failure", "throws"}

NoResult == [agentName |-> 0, isNull |-> FALSE, result |-> [success |-> FALSE, eventsToPublish |-> <<>>]]

\* executeAgent(agentName, ...) called with an agent object: getAgent finds no
\* entry under that key and the method returns null
NullResult == [NoResult EXCEPT !.isNull = TRUE]

NoHandler ==
  [state |-> "idle", raced |-> "none", invoked |-> 0, mutations |-> 0, late |-> 0,
   result |-> NoResult]

NoOut == [successCount |-> 0, failureCount |-> 0, eventsToPublish |-> <<>>]

NoRunner ==
  [pc |-> "idle", binding |-> "first", concurrency |-> 1, continueOnError |-> TRUE,
   n |-> 0, i |-> 1, results |-> <<>>, h |-> [a \in AgentIds |-> NoHandler],
   completed |-> <<>>, out |-> NoOut]

\* agents.slice(i, i + concurrency), with i counted from 1
BatchOf(i, n, concurrency) == i..Min(i + concurrency - 1, n)

\* batch.map(agent => this.executeAgent(agent, event, context)): under the
\* first binding every agent's handle is called and raced against the timeout;
\* under the last one every call returns null and no handler is called
InvokeBatch(h, batch, binding) ==
  [a \in AgentIds |->
     IF a \notin batch THEN h[a]
     ELSE IF binding = "first"
       THEN [h[a] EXCEPT !.state = "running", !.invoked = @ + 1]
       ELSE [h[a] EXCEPT !.raced = "null", !.result = NullResult]]

HasErrorMutant(batchResults) == FALSE

\* batchResults.some(r => !r.result.success)
HasError(batchResults) ==
  \E k \in DOMAIN batchResults : ~batchResults[k].result.success

\* reading r.result of a null entry throws a TypeError
HasNull(results) == \E k \in DOMAIN results : results[k].isNull

\* the tail of executeForEvent: counts and the concatenated envelopes; it
\* throws when an entry of results is null
Aggregate(r, results) ==
  IF HasNull(results)
    THEN [r EXCEPT !.pc = "thrown", !.results = results]
    ELSE [r EXCEPT !.pc = "done", !.results = results,
                   !.out = ExecuteForEvent([k \in DOMAIN results |-> results[k].result])]

\* agentRunner.executeForEvent(event, context) with n subscribed agents: no
\* agent gives the empty result at once, otherwise the first batch starts
ExecuteForEventCall(n, concurrency, continueOnError, binding) ==
  /\ runner.pc = "idle"
  /\ runner' =
       LET r == [runner EXCEPT !.binding = binding, !.concurrency = concurrency,
                               !.continueOnError = continueOnError, !.n = n]
       IN IF n = 0 THEN [r EXCEPT !.pc = "done"]
          ELSE [r EXCEPT !.pc = "batch",
                         !.h = InvokeBatch(@, BatchOf(1, n, concurrency), binding)]
  /\ UNCHANGED restOfRunner

\* process() of a running handler writes to the database
HandlerMutate(a) ==
  /\ runner.h[a].state = "running"
  /\ runner.h[a].mutations < MaxMutations
  /\ runner' = [runner EXCEPT !.h[a] =
       [@ EXCEPT !.mutations = @ + 1,
                 !.late = IF runner.h[a].raced = "timeout" THEN @ + 1 ELSE @]]
  /\ UNCHANGED restOfRunner

\* BaseAgent.handle settles; when the race is still open executeAgent returns
\* its result, after the timeout the result is dropped
HandlerReturn(a, outcome) ==
  /\ runner.h[a].state = "running"
  /\ runner' =
       IF runner.h[a].raced = "none"
         THEN [runner EXCEPT
                 !.h[a] = [@ EXCEPT !.state = "returned", !.raced = "result",
                             !.result = [agentName |-> a, isNull |-> FALSE,
                                         result |-> ExecuteAgent(outcome, <<a>>)]],
                 !.completed = Append(@, a)]
         ELSE [runner EXCEPT !.h[a] = [@ EXCEPT !.state = "returned"]]
  /\ UNCHANGED restOfRunner

\* createTimeout rejects first: executeAgent returns a failure result; the
\* promise of handle is left as it is
TimeoutFires(a) ==
  /\ runner.h[a].state = "running"
  /\ runner.h[a].raced = "none"
  /\ runner' = [runner EXCEPT
       !.h[a] = [@ EXCEPT !.raced = "timeout",
                   !.result = [agentName |-> a, isNull |-> FALSE,
                               result |-> ExecuteAgent("timeout", <<>>)]],
       !.completed = Append(@, a)]
  /\ UNCHANGED restOfRunner

\* Promise.all of the batch resolves: the batch results are pushed in the
\* order of the batch, continueOnError is checked, and the loop goes on to the
\* next batch or executeForEvent aggregates
BatchSettled ==
  /\ runner.pc = "batch"
  /\ LET batch == BatchOf(runner.i, runner.n, runner.concurrency)
         batchResults == [k \in 1..Cardinality(batch) |-> runner.h[runner.i + k - 1].result]
         results == runner.results \o batchResults
         next == runner.i + runner.concurrency
     IN /\ \A a \in batch : runner.h[a].raced # "none"
        /\ runner' =
             IF ~runner.continueOnError /\ HasNull(batchResults)
               THEN [runner EXCEPT !.pc = "thrown", !.results = results]
             ELSE IF ~runner.continueOnError /\ HasError(batchResults)
               THEN Aggregate(runner, results)
             ELSE IF next <= runner.n
               THEN [runner EXCEPT !.i = next, !.results = results,
                       !.h = InvokeBatch(@, BatchOf(next, runner.n, runner.concurrency),
                                         runner.binding)]
             ELSE Aggregate(runner, results)
  /\ UNCHANGED restOfRunner

\* ---------------------------------------------------------- agent registry

AgentNames == {"StockUpdateAgent", "ThresholdAgent"}
EventTypes == {"MovementRecorded", "StockLevelChanged", "*"}

NoAgent == [registered |-> FALSE, subscribesTo |-> {}]
NoCallYet == [op |-> "none", name |-> "null", replaced |-> FALSE]

\* private agents = new Map(); private eventSubscriptions = new Map()
NewRegistry ==
  [agents |-> [name \in AgentNames |-> NoAgent],
   eventSubscriptions |-> [t \in EventTypes |-> {}],
   last |-> NoCallYet]

\* register(agent): the entry under agent.name is set, and the name is added
\* to the subscription set of every event type the agent declares
Register(name, subscribesTo) ==
  /\ registry' =
       [agents |-> [registry.agents EXCEPT ![name] =
                      [registered |-> TRUE, subscribesTo |-> subscribesTo]],
        eventSubscriptions |->
          [t \in EventTypes |->
             IF t \in subscribesTo THEN registry.eventSubscriptions[t] \cup {name}
             ELSE registry.eventSubscriptions[t]],
        last |-> [op |-> "register", name |-> name,
                  replaced |-> registry.agents[name].registered]]
  /\ UNCHANGED restOfRegistry

\* unregister(agentName): nothing when the name has no entry; otherwise the
\* name leaves the subscription sets of the types the current entry declares
\* and the entry is deleted
Unregister(agentName) ==
  /\ registry' =
       IF ~registry.agents[agentName].registered
         THEN [registry EXCEPT !.last = [op |-> "unregister", name |-> agentName,
                                         replaced |-> FALSE]]
         ELSE [agents |-> [registry.agents EXCEPT ![agentName] = NoAgent],
               eventSubscriptions |->
                 [t \in EventTypes |->
                    IF t \in registry.agents[agentName].subscribesTo
                      THEN registry.eventSubscriptions[t] \ {agentName}
                      ELSE registry.eventSubscriptions[t]],
               last |-> [op |-> "unregister", name |-> agentName, replaced |-> FALSE]]
  /\ UNCHANGED restOfRegistry

\* getAgentsForEvent(eventType): the names subscribed to the type or to '*',
\* resolved through the agent map, names without an entry dropped
GetAgentsForEvent(eventType) ==
  { name \in registry.eventSubscriptions[eventType] \cup registry.eventSubscriptions["*"] :
      registry.agents[name].registered }

\* ------------------------------------------------------- scheduler manager

\* tenants and warehouses tables: id, owner, isActive
TenantRows == { [id |-> "t1", isActive |-> TRUE], [id |-> "t2", isActive |-> FALSE] }
WarehouseRows ==
  { [id |-> "w1", tenantId |-> "t1", isActive |-> TRUE],
    [id |-> "w2", tenantId |-> "t1", isActive |-> TRUE],
    [id |-> "w3", tenantId |-> "t1", isActive |-> FALSE],
    [id |-> "w4", tenantId |-> "t2", isActive |-> TRUE] }

\* prisma.tenant.findMany({ where: { isActive: true } })
ActiveTenants == { t.id : t \in { x \in TenantRows : x.isActive } }

\* prisma.warehouse.findMany({ where: { tenantId, isActive: true } })
ActiveWarehouses(tenantId) ==
  { w.id : w \in { x \in WarehouseRows : x.tenantId = tenantId /\ x.isActive } }

SchedRowIds == 1..(MaxTicks * Cardinality(WarehouseRows))

NoSchedEvent == [event_id |-> 0, tenant_id |-> "null", warehouse_id |-> "null",
                 correlation_id |-> 0, tick |-> 0]

NoSchedRow == [status |-> "NONE", published |-> FALSE, age |-> 0, event |-> NoSchedEvent]

NoJobRun ==
  [pc |-> "idle", tick |-> 0, correlationId |-> 0, tenants |-> <<>>, ti |-> 0,
   warehouses |-> <<>>, wi |-> 0, event |-> NoSchedEvent]

\* eventStore and rows are the tables; enqueued keeps every envelope an outbox
\* row was created for, deleted the ids of the purged rows
NewScheduler ==
  [run |-> NoJobRun, eventStore |-> {}, rows |-> [r \in SchedRowIds |-> NoSchedRow],
   nextUuid |-> 1, purges |-> 0, deleted |-> {}, enqueued |-> {}]

\* the end of the loop body of one tenant, or its catch block: the next
\* tenant's warehouses are looked up, or the job completes
NextTenant(run) ==
  IF run.ti < Len(run.tenants)
    THEN [run EXCEPT !.pc = "warehouses", !.ti = @ + 1, !.warehouses = <<>>, !.wi = 0,
                     !.event = NoSchedEvent]
    ELSE [run EXCEPT !.pc = "done", !.warehouses = <<>>, !.wi = 0, !.event = NoSchedEvent]

\* createEvent(eventType, payload, { correlationId, tenantId, warehouseId }):
\* randomUUID gives the event id, the correlation id is the one of the run
CreateScheduledEvent(run, uuid) ==
  [event_id |-> uuid, tenant_id |-> run.tenants[run.ti],
   warehouse_id |-> run.warehouses[run.wi], correlation_id |-> run.correlationId,
   tick |-> run.tick]

\* cron fires a job that is not internal: executeJob draws the correlation id
\* and asks for the active tenants
JobTick ==
  /\ sched.run.pc \in {"idle", "done"}
  /\ sched.run.tick < MaxTicks
  /\ sched' = [sched EXCEPT
       !.run = [NoJobRun EXCEPT !.pc = "tenants", !.tick = sched.run.tick + 1,
                                !.correlationId = sched.nextUuid],
       !.nextUuid = @ + 1]
  /\ UNCHANGED restOfSched

\* the active tenants arrive, in the order the database returns them
FindTenants ==
  /\ sched.run.pc = "tenants"
  /\ \E tenants \in SeqsOf(ActiveTenants) :
       sched' = [sched EXCEPT !.run =
         IF tenants = <<>> THEN [@ EXCEPT !.pc = "done"]
         ELSE [@ EXCEPT !.pc = "warehouses", !.tenants = tenants, !.ti = 1]]
  /\ UNCHANGED restOfSched

\* the tenant's active warehouses arrive; for the first of them the event is
\* created and eventRepo.append is issued
FindWarehouses ==
  /\ sched.run.pc = "warehouses"
  /\ \E warehouses \in SeqsOf(ActiveWarehouses(sched.run.tenants[sched.run.ti])) :
       sched' =
         IF warehouses = <<>> THEN [sched EXCEPT !.run = NextTenant(@)]
         ELSE LET run == [sched.run EXCEPT !.warehouses = warehouses, !.wi = 1]
              IN [sched EXCEPT
                    !.run = [run EXCEPT !.pc = "append",
                                        !.event = CreateScheduledEvent(run, sched.nextUuid)],
                    !.nextUuid = @ + 1]
  /\ UNCHANGED restOfSched

\* eventRepo.append(...) on the plain client: the row is committed
AppendEvent ==
  /\ sched.run.pc = "append"
  /\ sched' = [sched EXCEPT !.eventStore = @ \cup {sched.run.event},
                            !.run = [@ EXCEPT !.pc = "create"]]
  /\ UNCHANGED restOfSched

\* eventRepo.append throws: the catch block of the tenant logs, the loop goes
\* on with the next tenant
AppendThrows ==
  /\ sched.run.pc = "append"
  /\ sched' = [sched EXCEPT !.run = NextTenant(@)]
  /\ UNCHANGED restOfSched

\* outboxRepo.create(...) on the plain client; then the next warehouse of the
\* tenant, the next tenant, or the end of the job
CreateOutboxRow ==
  /\ sched.run.pc = "create"
  /\ \E r \in SchedRowIds :
       /\ sched.rows[r] = NoSchedRow
       /\ \A q \in SchedRowIds : q < r => sched.rows[q] # NoSchedRow \/ q \in sched.deleted
       /\ r \notin sched.deleted
       /\ LET row == [status |-> "PENDING", published |-> FALSE, age |-> 0,
                      event |-> sched.run.event]
              rows == [sched.rows EXCEPT ![r] = row]
          IN sched' =
               IF sched.run.wi < Len(sched.run.warehouses)
                 THEN LET run == [sched.run EXCEPT !.wi = @ + 1]
                      IN [sched EXCEPT
                            !.rows = rows,
                            !.enqueued = @ \cup {sched.run.event},
                            !.run = [run EXCEPT !.pc = "append",
                                       !.event = CreateScheduledEvent(run, sched.nextUuid)],
                            !.nextUuid = @ + 1]
                 ELSE [sched EXCEPT !.rows = rows, !.run = NextTenant(@),
                                    !.enqueued = @ \cup {sched.run.event}]
  /\ UNCHANGED restOfSched

\* outboxRepo.create throws: the event-store row stays, the remaining
\* warehouses of the tenant are skipped
CreateThrows ==
  /\ sched.run.pc = "create"
  /\ sched' = [sched EXCEPT !.run = NextTenant(@)]
  /\ UNCHANGED restOfSched

PurgeWhereMutant(row) == row.published /\ row.age > DaysToKeep

\* where: { status: 'PUBLISHED', publishedAt: { lt: cutoffDate } }
PurgeWhere(row) == row.status = "PUBLISHED" /\ row.published /\ row.age > DaysToKeep

\* cron fires internal:outbox-cleanup: handleInternalJob deletes the matching
\* rows in one deleteMany; executeJob returns without creating an event
HandleInternalJob ==
  /\ sched.purges < MaxTicks
  /\ LET gone == { r \in SchedRowIds : sched.rows[r] # NoSchedRow /\ PurgeWhere(sched.rows[r]) }
     IN sched' = [sched EXCEPT
          !.rows = [r \in SchedRowIds |-> IF r \in gone THEN NoSchedRow ELSE sched.rows[r]],
          !.deleted = @ \cup gone,
          !.purges = @ + 1]
  /\ UNCHANGED restOfSched

\* the dispatcher settles a PENDING row: markAsPublished stamps publishedAt,
\* markAsFailed at the last retry leaves it as it is
DispatchRow(r, status) ==
  /\ sched.rows[r].status = "PENDING"
  /\ sched' = [sched EXCEPT !.rows[r] =
       IF status = "PUBLISHED"
         THEN [@ EXCEPT !.status = "PUBLISHED", !.published = TRUE, !.age = 0]
         ELSE [@ EXCEPT !.status = "FAILED"]]
  /\ UNCHANGED restOfSched

\* an operator calls retryFailedMessage(id): the row is PENDING again, its
\* publishedAt is not cleared
RetryRow(r) ==
  /\ sched.rows[r].status \in {"FAILED", "PUBLISHED"}
  /\ sched' = [sched EXCEPT !.rows[r] = [@ EXCEPT !.status = "PENDING"]]
  /\ UNCHANGED restOfSched

\* a day passes: every publishedAt is a day further in the past
DayPasses ==
  /\ \E r \in SchedRowIds : sched.rows[r].published
  /\ \A r \in SchedRowIds : sched.rows[r].age < MaxAge
  /\ sched' = [sched EXCEPT !.rows =
       [r \in SchedRowIds |->
          IF sched.rows[r].published THEN [sched.rows[r] EXCEPT !.age = @ + 1]
          ELSE sched.rows[r]]]
  /\ UNCHANGED restOfSched

\* ---------------------------------------------------------- slotting scorer

\* A criterion score of 1.0 is held as ScoreOne and a weight w as 100 * w, so
\* a total score s is held as s * 100 * ScoreOne; the arithmetic is exact on
\* the inputs drawn below.
ScoreOne == 100

\* const maxFrequency = 100
MaxFrequency == 100

DefaultSlottingWeights ==
  [abcVelocity |-> 30, proximity |-> 25, capacity |-> 20, temperature |-> 10,
   fefo |-> 10, hazard |-> 5]

NoSlotting == [called |-> FALSE]

\* isLocationValid(location, context); temperatureRequired "none" stands for
\* a context without the field
IsLocationValidMutant(location, context) ==
  IF ~location.isActive THEN FALSE
  ELSE IF location.id \in context.excludedLocations THEN FALSE
  ELSE IF context.preferredZones # <<>> /\ ~Includes(context.preferredZones, location.zone)
    THEN FALSE
  ELSE IF /\ context.temperatureRequired # "none"
          /\ context.temperatureRequired # "AMBIENT"
          /\ location.temperatureZone # context.temperatureRequired
    THEN FALSE
  ELSE TRUE

IsLocationValid(location, context) ==
  IF ~location.isActive THEN FALSE
  ELSE IF location.id \in context.excludedLocations THEN FALSE
  ELSE IF context.preferredZones # <<>> /\ ~Includes(context.preferredZones, location.zone)
    THEN FALSE
  ELSE IF /\ context.temperatureRequired # "none"
          /\ context.temperatureRequired # "AMBIENT"
          /\ location.temperatureZone # context.temperatureRequired
    THEN FALSE
  ELSE IF context.isHazmat /\ ~location.isHazmatCertified THEN FALSE
  ELSE TRUE

ScoreAbcVelocity(candidate, context) ==
  LET normalizedFrequency ==
        Min((candidate.pickFrequency * ScoreOne) \div MaxFrequency, ScoreOne)
  IN  IF context.productAbcClass = "A" THEN normalizedFrequency
      ELSE IF context.productAbcClass = "C" THEN ScoreOne - normalizedFrequency
      ELSE ScoreOne \div 2

ScoreProximity(candidate, allCandidates) ==
  LET maxDistance ==
        CHOOSE d \in { allCandidates[i].distanceFromDock : i \in DOMAIN allCandidates } :
          \A i \in DOMAIN allCandidates : allCandidates[i].distanceFromDock <= d
  IN  IF maxDistance = 0 THEN ScoreOne
      ELSE ScoreOne - (candidate.distanceFromDock * ScoreOne) \div maxDistance

ScoreCapacity(candidate) ==
  ScoreOne - (candidate.currentUtilization * ScoreOne) \div 100

ScoreTemperature(location, context) ==
  IF context.temperatureRequired = "none" THEN ScoreOne \div 2
  ELSE IF location.temperatureZone = context.temperatureRequired THEN ScoreOne
  ELSE 0

ScoreFefo(location) ==
  IF location.type \in {"PICK", "STAGING"} THEN ScoreOne ELSE ScoreOne \div 2

ScoreHazard(location, context) ==
  IF ~context.isHazmat THEN ScoreOne
  ELSE IF location.isHazmatCertified THEN ScoreOne
  ELSE 0

\* the body of the map callback of scoreLocations
ScoredLocation(candidate, candidates, context, weights) ==
  LET breakdown ==
        [abcVelocityScore |-> ScoreAbcVelocity(candidate, context),
         proximityScore |-> ScoreProximity(candidate, candidates),
         capacityScore |-> ScoreCapacity(candidate),
         temperatureScore |-> ScoreTemperature(candidate.location, context),
         fefoScore |-> ScoreFefo(candidate.location),
         hazardScore |-> ScoreHazard(candidate.location, context)]
  IN  [location |-> candidate.location,
       score |-> breakdown.abcVelocityScore * weights.abcVelocity
                 + breakdown.proximityScore * weights.proximity
                 + breakdown.capacityScore * weights.capacity
                 + breakdown.temperatureScore * weights.temperature
                 + breakdown.fefoScore * weights.fefo
                 + breakdown.hazardScore * weights.hazard,
       breakdown |-> breakdown]

\* scored.sort((a, b) => b.score - a.score): the sort is stable, x goes
\* behind every element whose score is not lower than its own
RECURSIVE InsertByScore(_, _)
InsertByScore(x, sorted) ==
  IF sorted = <<>> THEN <<x>>
  ELSE IF x.score - Head(sorted).score <= 0
    THEN <<Head(sorted)>> \o InsertByScore(x, Tail(sorted))
  ELSE <<x>> \o sorted

RECURSIVE SortByScore(_)
SortByScore(list) ==
  IF list = <<>> THEN <<>>
  ELSE InsertByScore(list[Len(list)], SortByScore(SubSeq(list, 1, Len(list) - 1)))

ScoreLocations(candidates, context, weights) ==
  LET validCandidates ==
        SelectSeq(candidates, LAMBDA c : IsLocationValid(c.location, context))
      scored ==
        [i \in DOMAIN validCandidates |->
           ScoredLocation(validCandidates[i], candidates, context, weights)]
  IN  SortByScore(scored)

\* the call of scoreLocations(candidates, context) under study, on a scorer
\* built with the default weights
CallScoreLocations(candidates, context) ==
  /\ ~slot.called
  /\ slot' = [called |-> TRUE, candidates |-> candidates, context |-> context,
              result |-> ScoreLocations(candidates, context, DefaultSlottingWeights)]
  /\ UNCHANGED restOfSlot

\* --------------------------------------------------------- threshold agent

NoThresholdCall == [called |-> FALSE]

\* a nullable number column (reorderPoint, safetyStock, maxStock) in a
\* condition: null and 0 are both false
Truthy(column) == ~column.isNull /\ column.value # 0

CreateLowStockAlert(product, available) ==
  [event_type |-> InventoryEvent("LOW_STOCK_ALERT"), alert_level |-> "WARNING",
   quantity_available |-> available]

CreateCriticalStockAlert(product, available) ==
  [event_type |-> InventoryEvent("LOW_STOCK_ALERT"), alert_level |-> "CRITICAL",
   quantity_available |-> available]

CreateOverstockAlert(product, onHand) ==
  [event_type |-> "OverstockAlertTriggered", alert_level |-> "WARNING",
   quantity_available |-> onHand]

\* prisma.stockLevel.aggregate({ _sum }) ?? 0 over the rows of the product
RECURSIVE SumColumn(_, _)
SumColumn(rows, column) ==
  IF rows = <<>> THEN 0 ELSE Head(rows)[column] + SumColumn(Tail(rows), column)

\* ThresholdAgent.process: found is whether prisma.product.findUnique
\* returned a row, rows are the stock levels the aggregate runs over
ThresholdAgentProcess(found, product, rows) ==
  IF ~found \/ ~Truthy(product.reorderPoint)
    THEN [success |-> TRUE, eventsToPublish |-> <<>>]
  ELSE
    LET totalAvailable == SumColumn(rows, "quantityAvailable")
        totalOnHand == SumColumn(rows, "quantityOnHand")
        low == IF totalAvailable <= product.reorderPoint.value
                 THEN <<CreateLowStockAlert(product, totalAvailable)>> ELSE <<>>
        critical == IF Truthy(product.safetyStock)
                       /\ totalAvailable <= product.safetyStock.value
                      THEN <<CreateCriticalStockAlert(product, totalAvailable)>> ELSE <<>>
        overstock == IF Truthy(product.maxStock) /\ totalOnHand > product.maxStock.value
                       THEN <<CreateOverstockAlert(product, totalOnHand)>> ELSE <<>>
    IN  [success |-> TRUE, eventsToPublish |-> low \o critical \o overstock]

\* the handling of one StockLevelChanged envelope under study
CallThresholdAgent(found, product, rows) ==
  /\ ~thr.called
  /\ thr' = [called |-> TRUE, found |-> found, product |-> product, rows |-> rows,
             totalAvailable |-> SumColumn(rows, "quantityAvailable"),
             result |-> ThresholdAgentProcess(found, product, rows)]
  /\ UNCHANGED restOfThreshold

\* --------------------------------------------------------- lot expiry agent

\* private readonly warningThreshold = 30, criticalThreshold = 7,
\* expiredThreshold = 0 (days)
WarningThreshold == 30
CriticalThreshold == 7
ExpiredThreshold == 0

LotIds == 1..MaxLots
NoLotRow == [status |-> "none"]

\* place is the ScheduledExpiryCheck envelope's: not yet sent, on the queue,
\* with the publish loop of handleMessage, or acked; returned collects what
\* process() handed back over all deliveries, published what reached the
\* exchange
NewExpiry ==
  [lots |-> [l \in LotIds |-> NoLotRow], place |-> "none", result |-> <<>>,
   returned |-> {}, published |-> {}, deliveries |-> 0]

\* the lots of prisma.lotBatch.findMany: expirationDate <= now + 30 days and
\* status AVAILABLE or RELEASED, in id order; daysToExpiry is
\* Math.ceil((expirationDate - now) / one day)
RECURSIVE ExpiringLots(_, _)
ExpiringLots(lots, l) ==
  IF l > MaxLots THEN <<>>
  ELSE (IF /\ lots[l].status \in {"AVAILABLE", "RELEASED"}
           /\ lots[l].daysToExpiry <= WarningThreshold
         THEN <<l>> ELSE <<>>) \o ExpiringLots(lots, l + 1)

\* the envelope the loop body pushes for one lot
LotEnvelope(l, lot) ==
  IF lot.daysToExpiry <= ExpiredThreshold
    THEN [event_type |-> InventoryEvent("LOT_EXPIRED"), lot_batch_id |-> l,
          info |-> "AUTO_QUARANTINE",
          days |-> IF lot.daysToExpiry < 0 THEN -lot.daysToExpiry ELSE lot.daysToExpiry]
  ELSE IF lot.daysToExpiry <= CriticalThreshold
    THEN [event_type |-> "LotExpiryAlert", lot_batch_id |-> l, info |-> "CRITICAL",
          days |-> lot.daysToExpiry]
  ELSE [event_type |-> "LotExpiryAlert", lot_batch_id |-> l, info |-> "WARNING",
        days |-> lot.daysToExpiry]

\* quarantineExpiredLot: prisma.lotBatch.update({ status: 'EXPIRED' })
QuarantineExpiredLot(lots, l) == [lots EXCEPT ![l] = [@ EXCEPT !.status = "EXPIRED"]]

\* the for loop of process() over the first n lots found; a lot without
\* stock on hand is skipped
RECURSIVE ExpiryLoop(_, _, _)
ExpiryLoop(lots, found, n) ==
  IF n = 0 THEN [lots |-> lots, eventsToPublish |-> <<>>]
  ELSE
    LET before == ExpiryLoop(lots, found, n - 1)
        l == found[n]
    IN  IF ~lots[l].hasStock THEN before
        ELSE [lots |-> IF lots[l].daysToExpiry <= ExpiredThreshold
                         THEN QuarantineExpiredLot(before.lots, l) ELSE before.lots,
              eventsToPublish |-> Append(before.eventsToPublish, LotEnvelope(l, lots[l]))]

\* a lot_batches row as receipts and quality control leave it
CreateLot(l, status, daysToExpiry, hasStock) ==
  /\ expiry.place = "none"
  /\ expiry.lots[l] = NoLotRow
  /\ expiry' = [expiry EXCEPT !.lots[l] =
       [status |-> status, was |-> status, daysToExpiry |-> daysToExpiry,
        hasStock |-> hasStock]]
  /\ UNCHANGED restOfExpiry

\* the scheduler's ScheduledExpiryCheck envelope reaches the queue
ScheduledExpiryCheck ==
  /\ expiry.place = "none"
  /\ \A l \in LotIds : expiry.lots[l] # NoLotRow
  /\ expiry' = [expiry EXCEPT !.place = "queue"]
  /\ UNCHANGED restOfExpiry

\* LotExpiryAgent.process on one delivery of the envelope
LotExpiryAgentProcess ==
  /\ expiry.place = "queue"
  /\ expiry.deliveries < MaxDeliveries
  /\ LET found == ExpiringLots(expiry.lots, 1)
         done == ExpiryLoop(expiry.lots, found, Len(found))
     IN  expiry' = [expiry EXCEPT
           !.lots = done.lots,
           !.result = done.eventsToPublish,
           !.returned = @ \cup { done.eventsToPublish[i] : i \in DOMAIN done.eventsToPublish },
           !.place = "publishing",
           !.deliveries = @ + 1]
  /\ UNCHANGED restOfExpiry

\* prisma.lotBatch.update throws at an expired lot: the lots before it are
\* updated, the catch block returns a failure result without envelopes
LotExpiryAgentThrows(n) ==
  /\ expiry.place = "queue"
  /\ expiry.deliveries < MaxDeliveries
  /\ LET found == ExpiringLots(expiry.lots, 1)
     IN  /\ n \in DOMAIN found
         /\ expiry.lots[found[n]].hasStock
         /\ expiry.lots[found[n]].daysToExpiry <= ExpiredThreshold
         /\ expiry' = [expiry EXCEPT
               !.lots = ExpiryLoop(expiry.lots, found, n - 1).lots,
               !.result = <<>>,
               !.place = "publishing",
               !.deliveries = @ + 1]
  /\ UNCHANGED restOfExpiry

\* the publish loop of handleMessage on the next envelope of the result:
\* newEvent.event_type.toLowerCase() throws on an envelope without a type,
\* and the catch block requeues the delivery
PublishExpiryEvent ==
  /\ expiry.place = "publishing"
  /\ expiry.result # <<>>
  /\ IF Head(expiry.result).event_type = "undefined"
       THEN expiry' = [expiry EXCEPT !.result = <<>>, !.place = "queue"]
       ELSE expiry' = [expiry EXCEPT !.result = Tail(@),
                                     !.published = @ \cup {Head(expiry.result)}]
  /\ UNCHANGED restOfExpiry

\* this.channel.ack(msg) after the publish loop
AckExpiryCheck ==
  /\ expiry.place = "publishing"
  /\ expiry.result = <<>>
  /\ expiry' = [expiry EXCEPT !.place = "acked"]
  /\ UNCHANGED restOfExpiry

\* ----------------------------------------------------------- initial states

InitDisp ==
  /\ disp = [d \in Replicas |-> NewDispatcher]
  /\ wire = {}
  /\ acked = {}

InitCmd ==
  /\ cmd = [c \in RowIds |-> NewCmd]
  /\ tables = {}

InitConsumer ==
  /\ msgs = [m \in MsgIds |-> NoMsg]
  /\ pending = [m \in MsgIds |-> <<>>]
  /\ nextId = 1
  /\ consumerChannel = "consuming"

InitStock ==
  /\ stockLevels = [l \in Locs |-> NoLevel]
  /\ adj = [a \in Callers |-> NoCall]
  /\ envs = [e \in EventIds |-> NoEnvelope]
  /\ passes = [e \in EventIds |-> 0]

Init ==
  /\ outbox = [r \in RowIds |-> NoRow]
  /\ InitDisp
  /\ InitCmd
  /\ InitConsumer
  /\ InitStock
  /\ fefo = NoFefo
  /\ ship = NoShipment
  /\ cascade = NoCascade
  /\ poller = NewPoller
  /\ txn = [c \in Callers |-> NoTransaction]
  /\ slot = NoSlotting
  /\ thr = NoThresholdCall
  /\ expiry = NewExpiry
  /\ reservations = [r \in ResIds |-> NoReservation]
  /\ ful = [a \in Callers |-> NoFulfil]
  /\ runner = NoRunner
  /\ registry = NewRegistry
  /\ sched = NewScheduler

\* ----------------------------------------------------------- specifications

NextOutbox ==
  \/ \E d \in DispatcherIds : Start(d)
  \/ \E d \in DispatcherIds : PollTimer(d)
  \/ \E d \in DispatcherIds : FindPending(d)
  \/ \E d \in DispatcherIds, r \in RowIds : PublishOk(d, r)
  \/ \E d \in DispatcherIds : PublishFull(d)
  \/ \E d \in DispatcherIds : PublishThrow(d)
  \/ \E d \in DispatcherIds : MarkPublished(d)
  \/ \E d \in DispatcherIds : MarkFailedRead(d)
  \/ \E d \in DispatcherIds : MarkFailedWrite(d)
  \/ \E r \in RowIds : InsertRow(r)
  \/ \E r \in RowIds : RetryFailedMessage(r)
  \/ \E r \in RowIds : BrokerAccept(r)
  \/ Tick

SpecOutbox == Init /\ [][NextOutbox]_vars

\* The dispatcher runs (its event loop takes every step that stays enabled),
\* time passes, and the broker is healthy: a publish of a row that is
\* attempted again and again is accepted in the end.
FairOutbox ==
  /\ WF_vars(Tick)
  /\ \A d \in DispatcherIds :
       /\ WF_vars(Start(d))
       /\ WF_vars(PollTimer(d))
       /\ WF_vars(FindPending(d))
       /\ WF_vars(PublishFull(d) \/ PublishThrow(d) \/ \E r \in RowIds : PublishOk(d, r))
       /\ WF_vars(MarkPublished(d))
       /\ WF_vars(MarkFailedRead(d))
       /\ WF_vars(MarkFailedWrite(d))
       /\ \A r \in RowIds : SF_vars(PublishOk(d, r))

SpecOutboxLive == Init /\ [][NextOutbox]_vars /\ FairOutbox

\* C1: under a healthy broker and a running dispatcher every inserted outbox
\* row eventually reaches status PUBLISHED or FAILED.
C1_EveryRowSettles ==
  \A r \in RowIds :
    (outbox[r] # NoRow) ~> (outbox[r] # NoRow /\ outbox[r].status \in {"PUBLISHED", "FAILED"})

\* a row went through failed attempts and backoff and was then published,
\* while another row exhausted its retries
C1_Witness ==
  \E r, q \in RowIds :
    /\ outbox[r] # NoRow /\ outbox[r].status = "PUBLISHED" /\ outbox[r].retryCount >= 2
    /\ outbox[q] # NoRow /\ outbox[q].status = "FAILED"

\* C2: the only status changes of an outbox row are PENDING -> PUBLISHED and
\* PENDING -> FAILED (PENDING -> PENDING leaves the status alone), and a
\* PUBLISHED row keeps its status whatever markAsPublished, markAsFailed or
\* retryFailedMessage call follows.
C2_OnlyDeclaredTransitions ==
  [][\A r \in RowIds :
       (outbox[r] # NoRow /\ outbox'[r].status # outbox[r].status)
         => (outbox[r].status = "PENDING" /\ outbox'[r].status \in {"PUBLISHED", "FAILED"})]_vars

\* C3: a row is PUBLISHED only after the broker confirmed the publish of its
\* envelope to the dispatcher.
C3_PublishedOnlyAfterAck ==
  \A r \in RowIds : (outbox[r] # NoRow /\ outbox[r].status = "PUBLISHED") => r \in acked

InAttempt(d) ==
  disp[d].pc \in {"publish", "markPublished", "markFailedRead", "markFailedWrite"}

NextReplicas ==
  \/ \E d \in Replicas : Start(d)
  \/ \E d \in Replicas : PollTimer(d)
  \/ \E d \in Replicas : FindPending(d)
  \/ \E d \in Replicas, r \in RowIds : PublishOk(d, r)
  \/ \E d \in Replicas : PublishFull(d)
  \/ \E d \in Replicas : PublishThrow(d)
  \/ \E d \in Replicas : MarkPublished(d)
  \/ \E d \in Replicas : MarkFailedRead(d)
  \/ \E d \in Replicas : MarkFailedWrite(d)
  \/ InsertRow(1)
  \/ \E r \in RowIds : BrokerAccept(r)
  \/ Tick

SpecReplicas == Init /\ [][NextReplicas]_vars

\* C20: with two dispatcher replicas polling the same outbox, no row is in
\* the publish attempt of two of them at the same time.
C20_OneOwnerPerRow ==
  \A d, f \in Replicas :
    (d # f /\ InAttempt(d) /\ InAttempt(f)) => CurrentId(d) # CurrentId(f)

\* ---------------------------------------------------------------------------
\* dispatcher shutdown

NextShutdown ==
  \/ \E d \in DispatcherIds : Start(d)
  \/ \E d \in DispatcherIds : PollTimer(d)
  \/ \E d \in DispatcherIds : FindPending(d)
  \/ \E d \in DispatcherIds, r \in RowIds : PublishOk(d, r)
  \/ \E d \in DispatcherIds : PublishFull(d)
  \/ \E d \in DispatcherIds : PublishThrow(d)
  \/ \E d \in DispatcherIds : MarkPublished(d)
  \/ \E d \in DispatcherIds : MarkFailedRead(d)
  \/ \E d \in DispatcherIds : MarkFailedWrite(d)
  \/ \E d \in DispatcherIds : Stop(d)
  \/ \E r \in RowIds : InsertRow(r)
  \/ \E r \in RowIds : BrokerAccept(r)
  \/ Tick

SpecShutdown == Init /\ [][NextShutdown]_vars

\* C30: stop() does not close the channel under a processing pass: no row is
\* marked failed (retry count incremented) by a pass whose channel stop() has
\* closed.
C30_ShutdownDrains ==
  [][\A d \in DispatcherIds :
       disp[d].channel = "closed" =>
         ~(disp[d].pc = "markFailedWrite" /\ disp'[d].pc # "markFailedWrite")]_vars

\* ---------------------------------------------------------------------------
\* command transactions

NextCmd ==
  \/ \E c \in RowIds, k \in CmdKinds : BeginTx(c, k)
  \/ \E c \in RowIds : TxWrite(c)
  \/ \E c \in RowIds : TxAbort(c)
  \/ \E c \in RowIds : TxCommit(c)

SpecCmd == Init /\ [][NextCmd]_vars

\* C4: the business rows, the event-store row and the outbox row of a command
\* are visible together, after its transaction committed, or not at all; an
\* aborted transaction leaves no outbox row.
C4_OutboxAtomicWithBusiness ==
  \A c \in RowIds :
    /\ cmd[c].state = "committed" =>
         \A i \in 1..Len(CmdSteps(cmd[c].kind)) : Visible(c, CmdSteps(cmd[c].kind)[i])
    /\ cmd[c].state # "committed" =>
         /\ outbox[c] = NoRow
         /\ \A t \in {"movement", "salesOrder", "salesOrderLine", "receipt", "receiptLine",
                        "eventStore"} :
              ~Visible(c, t)

\* one command aborted after its outbox create had run, another committed
C4_Witness ==
  \E a, b \in RowIds :
    /\ cmd[a].state = "aborted" /\ cmd[a].pc > Len(CmdSteps(cmd[a].kind))
    /\ cmd[b].state = "committed" /\ outbox[b] # NoRow

\* ---------------------------------------------------------------------------
\* event consumer and agent runtime

NextConsumer ==
  \/ \E m \in MsgIds, via \in {"outbox", "external"}, x \in {0, MaxRetriesConsumer},
        malformed, infra \in BOOLEAN : Enqueue(m, via, x, malformed, infra)
  \/ \E m \in MsgIds : Deliver(m)
  \/ \E m \in MsgIds : ParseThrow(m)
  \/ \E m \in MsgIds, n \in 0..MaxAgents : RunAgents(m, n)
  \/ \E m \in MsgIds : ExecuteForEventThrows(m)
  \/ \E m \in MsgIds : PublishDerived(m)
  \/ \E m \in MsgIds : PublishDerivedThrow(m)
  \/ \E m \in MsgIds : Ack(m)
  \/ \E m \in MsgIds : NackRequeue(m)

SpecConsumer == Init /\ [][NextConsumer]_vars

\* C5: no message is delivered more than MaxRetriesConsumer + 1 times, and the
\* delivery that fails as the fourth is dead-lettered, not requeued.
C5_RetryBound ==
  \A m \in MsgIds :
    msgs[m] # NoMsg =>
      /\ msgs[m].deliveries <= MaxRetriesConsumer + 1
      /\ ~(msgs[m].deliveries = MaxRetriesConsumer + 1 /\ msgs[m].place = "delay")

\* C6: an envelope whose agents raise an infrastructure error on every
\* delivery is never acked (it is retried and then dead-lettered).
C6_InfraErrorNeverAcked ==
  \A m \in MsgIds :
    (msgs[m] # NoMsg /\ msgs[m].infraAlways) => msgs[m].place # "acked"

\* C9: every derived envelope on the exchange carries the tenant and the
\* correlation id of the inbound envelope it was derived from, and names that
\* envelope as its causation.
C9_DerivedCarriesInboundIds ==
  \A m \in MsgIds :
    (msgs[m] # NoMsg /\ msgs[m].parent # 0) =>
      /\ msgs[m].tenant_id = msgs[msgs[m].parent].tenant_id
      /\ msgs[m].correlation_id = msgs[msgs[m].parent].correlation_id
      /\ msgs[m].causation_id = msgs[m].parent

\* C10: a derived envelope reaches the broker only through an outbox row
\* published by the dispatcher, never by a publish on the consumer's channel.
C10_DerivedThroughOutbox ==
  \A m \in MsgIds :
    (msgs[m] # NoMsg /\ msgs[m].parent # 0) =>
      /\ msgs[m].via = "outbox"
      /\ \E r \in RowIds : outbox[r] # NoRow

\* The consumer runs: a handler that can take its next step takes it, and the
\* timer of a delayed nack fires.
FairConsumer ==
  \A m \in MsgIds :
    /\ WF_vars(ParseThrow(m))
    /\ WF_vars(\E n \in 0..MaxAgents : RunAgents(m, n))
    /\ WF_vars(ExecuteForEventThrows(m))
    /\ WF_vars(PublishDerived(m) \/ PublishDerivedThrow(m))
    /\ WF_vars(Ack(m))
    /\ WF_vars(NackRequeue(m))

SpecConsumerLive == Init /\ [][NextConsumer]_vars /\ FairConsumer

NextConsumerStop ==
  \/ /\ consumerChannel = "consuming"
     /\ \E m \in MsgIds, malformed \in BOOLEAN : Enqueue(m, "outbox", 0, malformed, FALSE)
  \/ /\ consumerChannel = "consuming"
     /\ \E m \in MsgIds : Deliver(m)
  \/ \E m \in MsgIds : ParseThrow(m)
  \/ \E m \in MsgIds, n \in 0..1 : RunAgents(m, n)
  \/ \E m \in MsgIds : ExecuteForEventThrows(m)
  \/ /\ consumerChannel # "closed"
     /\ \E m \in MsgIds : PublishDerived(m)
  \/ \E m \in MsgIds : PublishDerivedThrow(m)
  \/ /\ consumerChannel # "closed"
     /\ \E m \in MsgIds : Ack(m)
  \/ /\ consumerChannel # "closed"
     /\ \E m \in MsgIds : NackRequeue(m)
  \/ \E m \in MsgIds : ChannelClosedThrows(m)
  \/ StopCancel
  \/ StopClose

SpecConsumerStop == Init /\ [][NextConsumerStop]_vars

\* C31: when stop() closes the channel, no delivery is with a handler or
\* waiting for the timer of its nack: every one of them was acked or nacked.
C31_StopDrains ==
  [][(consumerChannel # "closed" /\ consumerChannel' = "closed") => InFlight = {}]_vars

\* ---------------------------------------------------------------------------
\* The slotting scorer on every candidate list and context within the bounds.

\* candidate i is location i; pick locations with no stock in them
SlottingCandidates(i) ==
  { [location |-> [id |-> i, isActive |-> act, zone |-> z, temperatureZone |-> t,
                   isHazmatCertified |-> hz, type |-> "PICK", pickSequence |-> ps],
     currentUtilization |-> 0, distanceFromDock |-> d, pickFrequency |-> f] :
      act \in BOOLEAN, z \in {"A", "B"}, t \in {"AMBIENT", "FROZEN"},
      hz \in BOOLEAN, ps \in {1, 2}, d \in {1, 2}, f \in {20, 80} }

SlottingContexts ==
  { [productAbcClass |-> abc, temperatureRequired |-> t, isHazmat |-> hz,
     preferredZones |-> pz, excludedLocations |-> ex] :
      abc \in {"A", "C"}, t \in {"none", "AMBIENT", "FROZEN"}, hz \in BOOLEAN,
      pz \in {<<>>, <<"A">>}, ex \in {{}, {1}} }

NextSlot ==
  /\ ~slot.called
  /\ \E context \in SlottingContexts, n \in 1..MaxCandidates :
       \E candidates \in [1..n -> UNION { SlottingCandidates(i) : i \in 1..n }] :
         /\ \A i \in 1..n : candidates[i].location.id = i
         /\ CallScoreLocations(candidates, context)

SpecSlot == Init /\ [][NextSlot]_vars

Returned == { slot.result[i].location : i \in DOMAIN slot.result }

\* C32 as stated: no location in the ranking is inactive, excluded, outside
\* the preferred zones, of a temperature zone that neither is the required
\* one nor is AMBIENT, or without hazmat certification for a hazmat product.
C32_OnlyCompatibleLocations ==
  slot.called =>
    \A l \in Returned :
      /\ l.isActive
      /\ l.id \notin slot.context.excludedLocations
      /\ slot.context.preferredZones # <<>> => Includes(slot.context.preferredZones, l.zone)
      /\ slot.context.temperatureRequired # "none" =>
           l.temperatureZone \in {slot.context.temperatureRequired, "AMBIENT"}
      /\ slot.context.isHazmat => l.isHazmatCertified

\* C32 amended: as above, with the temperature rule of the code: a location
\* is dropped when the product requires a zone other than AMBIENT and the
\* location is not of that zone; a product that requires AMBIENT, or names no
\* requirement, is offered locations of every zone.
C32_OnlyValidLocations ==
  slot.called =>
    \A l \in Returned :
      /\ l.isActive
      /\ l.id \notin slot.context.excludedLocations
      /\ slot.context.preferredZones # <<>> => Includes(slot.context.preferredZones, l.zone)
      /\ slot.context.temperatureRequired \notin {"none", "AMBIENT"} =>
           l.temperatureZone = slot.context.temperatureRequired
      /\ slot.context.isHazmat => l.isHazmatCertified

\* a hazmat product that requires FROZEN, two active candidates in the
\* preferred zone, one of them dropped and the other ranked
C32_Witness ==
  /\ slot.called
  /\ slot.context.isHazmat /\ slot.context.temperatureRequired = "FROZEN"
  /\ slot.context.preferredZones # <<>>
  /\ Len(slot.candidates) = 2 /\ Len(slot.result) = 1
  /\ \A i \in 1..2 : slot.candidates[i].location.isActive /\ slot.candidates[i].location.zone = "A"

LocationIds(ranking) == [i \in DOMAIN ranking |-> ranking[i].location.id]

Reverse(list) == [i \in DOMAIN list |-> list[Len(list) + 1 - i]]

\* C33: the ranking is by descending score, equal scores by ascending pick
\* sequence, and it is the same when the candidates are supplied in the
\* opposite order.
C33_RankingOrderIndependent ==
  slot.called =>
    /\ \A i, j \in DOMAIN slot.result :
         i < j =>
           \/ slot.result[i].score > slot.result[j].score
           \/ /\ slot.result[i].score = slot.result[j].score
              /\ slot.result[i].location.pickSequence <= slot.result[j].location.pickSequence
    /\ LocationIds(ScoreLocations(Reverse(slot.candidates), slot.context, DefaultSlottingWeights))
         = LocationIds(slot.result)

\* ---------------------------------------------------------------------------
\* The threshold agent on every product and stock within the bounds.

ThresholdColumns ==
  { [isNull |-> TRUE, value |-> 0] } \cup
  { [isNull |-> FALSE, value |-> v] : v \in {0, 1, MaxThreshold} }

ThresholdProducts ==
  { [reorderPoint |-> rp, safetyStock |-> ss, maxStock |-> mx] :
      rp \in ThresholdColumns, ss \in ThresholdColumns, mx \in ThresholdColumns }

ThresholdRows ==
  { [quantityAvailable |-> a, quantityOnHand |-> a + r] : a \in 0..2, r \in 0..1 }

NextThreshold ==
  /\ ~thr.called
  /\ \E found \in BOOLEAN, product \in ThresholdProducts, n \in 0..2 :
       \E rows \in [1..n -> ThresholdRows] : CallThresholdAgent(found, product, rows)

SpecThreshold == Init /\ [][NextThreshold]_vars

\* the levels of the low-stock alerts among the envelopes of the last call
LowStockLevels ==
  { thr.result.eventsToPublish[i].alert_level :
      i \in { j \in DOMAIN thr.result.eventsToPublish :
                thr.result.eventsToPublish[j].event_type # "OverstockAlertTriggered" } }

\* C34: for a product with a reorder point and a safety stock, a total
\* available at or below the reorder point and above the safety stock gives a
\* low-stock alert of level WARNING, and a total available at or below the
\* safety stock gives a low-stock alert of level CRITICAL.
C34_AlertLevels ==
  (/\ thr.called /\ thr.found
   /\ ~thr.product.reorderPoint.isNull /\ ~thr.product.safetyStock.isNull) =>
    /\ (/\ thr.totalAvailable <= thr.product.reorderPoint.value
        /\ thr.totalAvailable > thr.product.safetyStock.value)
         => LowStockLevels = {"WARNING"}
    /\ thr.totalAvailable <= thr.product.safetyStock.value
         => LowStockLevels = {"CRITICAL"}

\* ---------------------------------------------------------------------------
\* The lot-expiry sweep: lots of every status and age, one scheduled check.

NextExpiry ==
  \/ \E l \in LotIds, status \in {"AVAILABLE", "RELEASED", "QUARANTINE"},
        daysToExpiry \in {-1, 3, 20, 40}, hasStock \in BOOLEAN :
          CreateLot(l, status, daysToExpiry, hasStock)
  \/ ScheduledExpiryCheck
  \/ LotExpiryAgentProcess
  \/ \E n \in 1..MaxLots : LotExpiryAgentThrows(n)
  \/ PublishExpiryEvent
  \/ AckExpiryCheck

SpecExpiry == Init /\ [][NextExpiry]_vars

\* C35: once the scheduled check is acked, every lot that was AVAILABLE, had
\* passed its expiration date and has stock on hand is EXPIRED, and an
\* Inventory.LotExpired envelope with action_taken AUTO_QUARANTINE was
\* emitted for it.
C35_ExpiredLotsQuarantined ==
  expiry.place = "acked" =>
    \A l \in LotIds :
      (/\ expiry.lots[l].was = "AVAILABLE"
       /\ expiry.lots[l].daysToExpiry < 0
       /\ expiry.lots[l].hasStock) =>
        /\ expiry.lots[l].status = "EXPIRED"
        /\ \E e \in expiry.returned :
             /\ e.event_type = "Inventory.LotExpired"
             /\ e.lot_batch_id = l
             /\ e.info = "AUTO_QUARANTINE"

\* ---------------------------------------------------------------------------
\* One shipment against reserved stock, and the agents its envelopes reach.

NextShip ==
  \/ /\ ~ship.done
     /\ \E to \in Locs, quantity \in Quantities : MovementRecorded(1, "RECEIPT", quantity, "null", to)
  \/ \E e \in EventIds : /\ e = 1 => ~ship.done
                         /\ StockUpdateAgentProcess(e)
  \/ /\ ~ship.done
     /\ \E quantity \in Quantities : ReserveForLine(quantity)
  \/ \E quantity \in Quantities : ShipmentRequested(quantity)

SpecShip == Init /\ [][NextShip]_vars

\* C36: when every MovementRecorded envelope of the shipment has been handled
\* once by StockUpdateAgent, each stock level shipped from has lost as many
\* units of on-hand as were shipped from it.
C36_ShipReducesOnHandOnce ==
  (ship.done /\ \A e \in ship.events : passes[e] = 1) =>
    \A l \in Locs :
      ship.shipped[l] > 0 =>
        stockLevels[l].quantityOnHand = ship.before[l].quantityOnHand - ship.shipped[l]

\* ---------------------------------------------------------------------------
\* The optimistic stock mutator under concurrent callers.

NextAdjust ==
  \/ \E l \in Locs : GetOrCreateStockLevel(l)
  \/ \E a \in Callers, l \in Locs, type \in {"on_hand", "reserved"},
        delta \in {-1, MaxQuantity}, expectedVersion \in 1..MaxCallers :
       AdjustQuantity(a, l, type, delta, expectedVersion)
  \/ \E a \in Callers : FindUnique(a)
  \/ \E a \in Callers : UpdateQuantities(a)

SpecAdjust == Init /\ [][NextAdjust]_vars

\* C7: of the adjust operations on one stock-level row that name the same
\* expected version, at most one commits.
C7_OneCommitPerVersion ==
  \A a, b \in Callers :
    (/\ a # b
     /\ adj[a].result = "committed"
     /\ adj[b].result = "committed"
     /\ adj[a].id = adj[b].id)
      => adj[a].expectedVersion # adj[b].expectedVersion

\* C12: no stock-level row ever has a negative on-hand quantity (an adjustment
\* that would make it negative is refused and leaves the row as it was).
C12_OnHandNeverNegative ==
  \A l \in Locs : stockLevels[l] # NoLevel => stockLevels[l].quantityOnHand >= 0

\* ---------------------------------------------------------------------------
\* Replay of MovementRecorded envelopes through the stock update agent.

NextReplay ==
  \/ \E l \in Locs : GetOrCreateStockLevel(l)
  \/ \E e \in EventIds, type \in {"RECEIPT", "SHIP", "PUTAWAY", "CYCLE_COUNT"},
        quantity \in Quantities, from \in {"L1", "null"}, to \in {"L2", "null"} :
       MovementRecorded(e, type, quantity, from, to)
  \/ \E e \in EventIds : StockUpdateAgentProcess(e)

SpecReplay == Init /\ [][NextReplay]_vars

\* C8: consuming an envelope that has already been consumed leaves the stock
\* levels as they are: two passes of the same event_id persist what one does.
C8_ReplayLeavesState ==
  [][\A e \in EventIds :
       (passes[e] >= 1 /\ StockUpdateAgentProcess(e)) => stockLevels' = stockLevels]_vars

\* ---------------------------------------------------------------------------
\* The FEFO allocator on every request and candidate list within the bounds.

FefoRequests ==
  { [productId |-> "P1", requestedQuantity |-> q, preferredLocations |-> pl,
     excludedLots |-> ex, minDaysToExpiration |-> md] :
      q \in {0, 1, MaxRequested}, pl \in {<<>>, <<"L2">>}, ex \in {{}, {1}},
      md \in {0, 5} }

FefoOptions ==
  { [hasMinDays |-> FALSE, minDaysToExpiration |-> 0],
    [hasMinDays |-> TRUE, minDaysToExpiration |-> 5] }

NextFefo ==
  /\ ~fefo.called
  /\ \E request \in FefoRequests, options \in FefoOptions, n \in 1..MaxSources :
       \E choice \in [1..n -> SourceChoices] :
         CallAllocateWithFefo(request, NumberSources(choice), options)

SpecFefo == Init /\ [][NextFefo]_vars

\* C16 as stated: with distinct expiration dates and enough supply, a lot is
\* allocated from only when every earlier-expiring lot that passes the filters
\* has been taken in full.
C16_FefoMonotone ==
  fefo.called =>
    LET req == fefo.request
        srcs == fefo.sources
        lines == fefo.result.allocations
        minDays == IF fefo.options.hasMinDays THEN fefo.options.minDaysToExpiration ELSE 0
        Passes(i) == MatchesRequest(srcs[i], req) /\ SkipReason(srcs[i], req, minDays) = "none"
        Dated(i) == srcs[i].lotBatch.hasExpiration
        Taken(i) == SumQuantities(
                      [k \in DOMAIN lines |->
                         IF lines[k].stockLevelId = i THEN lines[k].quantity ELSE 0])
        supply == SumQuantities(
                    [i \in DOMAIN srcs |->
                       IF Passes(i) THEN srcs[i].quantityAvailable ELSE 0])
        distinct == \A i, j \in DOMAIN srcs :
                      (i # j /\ Dated(i) /\ Dated(j)) =>
                        srcs[i].lotBatch.expirationDate # srcs[j].lotBatch.expirationDate
    IN  (distinct /\ supply >= req.requestedQuantity) =>
          \A a, b \in DOMAIN srcs :
            (/\ Dated(a) /\ Dated(b) /\ Passes(a)
             /\ srcs[a].lotBatch.expirationDate < srcs[b].lotBatch.expirationDate
             /\ Taken(b) > 0)
              => Taken(a) = srcs[a].quantityAvailable

\* C16 amended: the same, for two lots of the same preference group (both in
\* preferred_locations or both outside it).
C16_FefoMonotoneWithinGroup ==
  fefo.called =>
    LET req == fefo.request
        srcs == fefo.sources
        lines == fefo.result.allocations
        minDays == IF fefo.options.hasMinDays THEN fefo.options.minDaysToExpiration ELSE 0
        Passes(i) == MatchesRequest(srcs[i], req) /\ SkipReason(srcs[i], req, minDays) = "none"
        Dated(i) == srcs[i].lotBatch.hasExpiration
        Preferred(i) == Includes(req.preferredLocations, srcs[i].locationId)
        Taken(i) == SumQuantities(
                      [k \in DOMAIN lines |->
                         IF lines[k].stockLevelId = i THEN lines[k].quantity ELSE 0])
        supply == SumQuantities(
                    [i \in DOMAIN srcs |->
                       IF Passes(i) THEN srcs[i].quantityAvailable ELSE 0])
        distinct == \A i, j \in DOMAIN srcs :
                      (i # j /\ Dated(i) /\ Dated(j)) =>
                        srcs[i].lotBatch.expirationDate # srcs[j].lotBatch.expirationDate
    IN  (distinct /\ supply >= req.requestedQuantity) =>
          \A a, b \in DOMAIN srcs :
            (/\ Dated(a) /\ Dated(b) /\ Passes(a)
             /\ Preferred(a) = Preferred(b)
             /\ srcs[a].lotBatch.expirationDate < srcs[b].lotBatch.expirationDate
             /\ Taken(b) > 0)
              => Taken(a) = srcs[a].quantityAvailable

\* two lots of one group, the later-expiring one first in the candidate list,
\* and a demand that takes the earlier one in full and part of the later one
C16_Witness ==
  /\ fefo.called
  /\ Len(fefo.sources) = 2
  /\ fefo.request.preferredLocations = <<>>
  /\ fefo.sources[1].lotBatch.hasExpiration
  /\ fefo.sources[2].lotBatch.hasExpiration
  /\ fefo.sources[2].lotBatch.expirationDate < fefo.sources[1].lotBatch.expirationDate
  /\ fefo.result.fullyAllocated
  /\ Len(fefo.result.allocations) = 2
  /\ fefo.result.allocations[1].stockLevelId = 2
  /\ fefo.result.allocations[1].quantity = fefo.sources[2].quantityAvailable
  /\ fefo.result.allocations[2].quantity < fefo.sources[1].quantityAvailable

\* C17: the allocation lines sum to at most the requested quantity, the
\* shortfall is the requested quantity less the allocated one, and
\* fullyAllocated is reported exactly when no demand remains.
C17_FefoTotals ==
  fefo.called =>
    LET res == fefo.result
        requested == fefo.request.requestedQuantity
        total == SumQuantities([k \in DOMAIN res.allocations |-> res.allocations[k].quantity])
    IN  /\ total <= requested
        /\ res.requestedQuantity = requested
        /\ res.allocatedQuantity = total
        /\ res.shortfallQuantity = requested - total
        /\ res.fullyAllocated <=> (requested - total = 0)
        /\ \A k \in DOMAIN res.allocations : res.allocations[k].quantity > 0

\* a partial allocation: a line, a skipped source and a shortfall
C17_Witness ==
  /\ fefo.called
  /\ fefo.result.allocations # <<>>
  /\ fefo.result.skippedSources # <<>>
  /\ fefo.result.shortfallQuantity > 0
  /\ ~fefo.result.fullyAllocated

\* C18: a source with nothing available, with a lot that is not AVAILABLE or
\* RELEASED, with a lot expiring in fewer days than the request's
\* min_days_to_expiration, or with an excluded lot is never allocated from.
C18_FefoFilters ==
  fefo.called =>
    LET req == fefo.request
        srcs == fefo.sources
        res == fefo.result
        Barred(i) ==
          LET lot == srcs[i].lotBatch IN
          \/ srcs[i].quantityAvailable <= 0
          \/ lot # NoLot /\ lot.status \notin {"AVAILABLE", "RELEASED"}
          \/ /\ lot.hasExpiration
             /\ CalculateDaysToExpiration(lot.expirationDate) < req.minDaysToExpiration
          \/ lot # NoLot /\ lot.id \in req.excludedLots
    IN  \A i \in DOMAIN srcs :
          (MatchesRequest(srcs[i], req) /\ Barred(i)) =>
            \A k \in DOMAIN res.allocations : res.allocations[k].stockLevelId # i

\* ---------------------------------------------------------------------------
\* Handlers of the agent processor running side by side on the stock rows:
\* receipts creating the rows (alone, as one transaction), then reservation
\* runs and further receipts whose reads and writes interleave.
NextTxn ==
  \/ \E e \in EventIds, to \in Locs, quantity \in Quantities :
       MovementRecorded(e, "RECEIPT", quantity, "null", to)
  \/ \E e \in EventIds : /\ envs[e] # NoEnvelope
                         /\ stockLevels[envs[e].to_location_id] = NoLevel
                         /\ StockUpdateAgentProcess(e)
  \/ \E c \in Callers, quantity \in Quantities : ReserveFindMany(c, quantity)
  \/ \E c \in Callers : ReserveUpdate(c)
  \/ \E c \in Callers, e \in EventIds : AdjustFindFirst(c, e)
  \/ \E c \in Callers : AdjustUpdate(c)

SpecTxn == Init /\ [][NextTxn]_vars

\* C37: with reservation runs and stock updates interleaving on a stock-level
\* row, every row keeps reserved <= on-hand and available >= 0 in every
\* reachable state (no available unit is reserved twice).
C37_ConcurrentWritersSerialized ==
  \A l \in Locs :
    stockLevels[l] # NoLevel =>
      /\ stockLevels[l].quantityReserved <= stockLevels[l].quantityOnHand
      /\ stockLevels[l].quantityAvailable >= 0

\* ---------------------------------------------------------------------------
\* The poll loop of one dispatcher from start() to stop().

NextPoller ==
  \/ DispatcherStart
  \/ TimerFires
  \/ \E p \in PassIds, n \in 0..MaxBatch : PassFinds(p, n)
  \/ \E p \in PassIds : PassPublishes(p)
  \/ \E p \in PassIds : PassRejects(p)
  \/ DispatcherStop

SpecPoller == Init /\ [][NextPoller]_vars

\* C39: one dispatcher has at most one processOutbox pass in flight, the poll
\* timer is armed only while no pass is in flight, and no pass has started
\* after stop() was called.
C39_OnePassInFlight ==
  /\ Cardinality(PassesInFlight(poller)) <= 1
  /\ poller.pollTimer = "armed" => PassesInFlight(poller) = {}
  /\ \A p \in PassIds : poller.passes[p] # NoPass => ~poller.passes[p].afterStop

\* a second pass is running after the first one settled, or stop() came
\* during a pass, which then settled without arming the timer
C39_Witness ==
  /\ poller.stopped
  /\ poller.polls >= 2
  /\ PassesInFlight(poller) = {}
  /\ poller.pollTimer = "fired"

\* ---------------------------------------------------------------------------
\* One cascade: an envelope, the agents subscribed to it, and what they emit.

NextCascade ==
  \/ \E t \in RootTypes : CascadeStart(t)
  \/ \E env \in cascade.queue : CascadeHandle(env)
  \/ \E env \in cascade.queue : CascadeRequeue(env)

SpecCascade == Init /\ [][NextCascade]_vars

\* the consumer keeps handling deliveries and its nack timers fire
FairCascade ==
  /\ WF_vars(\E env \in cascade.queue : CascadeHandle(env))
  /\ WF_vars(\E env \in cascade.queue : CascadeRequeue(env))

SpecCascadeLive == Init /\ [][NextCascade]_vars /\ FairCascade

\* C40: the cascade started by one command or scheduled event is finite: no
\* agent is handed an envelope that descends from one of its own, and the
\* queue is empty in the end (every delivery acked, nothing waiting for a
\* redelivery).
C40_CascadeQuiesces ==
  /\ [](\A env \in cascade.queue :
          \A i \in DOMAIN SubscribedAgents(env.event_type) :
            SubscribedAgents(env.event_type)[i].name \notin env.chain)
  /\ cascade.started ~> (cascade.queue = {})

\* ---------------------------------------------------------------------------
\* Stock received, reserved, shipped, cancelled, fulfilled and quarantined.

NextReserve ==
  \/ \E to \in Locs : MovementRecorded(1, "RECEIPT", MaxQuantity, "null", to)
  \/ StockUpdateAgentProcess(1)
  \/ \E quantity \in Quantities : ReserveForLine(quantity)
  \/ \E quantity \in Quantities : ShippingAgentProcess(quantity)
  \/ \E r \in ResIds : CancelReservation(r)
  \/ \E a \in Callers, r \in ResIds, quantity \in Quantities : FulfillReservation(a, r, quantity)
  \/ \E a \in Callers : UpdateFulfilled(a)
  \/ \E a \in Callers : UpdateStatus(a)
  \/ \E location_id \in {"null", "L1"}, quantity \in 0..1 :
       QuarantineAgentProcess(location_id, quantity)

SpecReserve == Init /\ [][NextReserve]_vars

\* C13: every stock-level row has available = on-hand - reserved.
C13_AvailableIsOnHandLessReserved ==
  \A l \in Locs :
    stockLevels[l] # NoLevel =>
      stockLevels[l].quantityAvailable =
        stockLevels[l].quantityOnHand - stockLevels[l].quantityReserved

\* C14: the reserved total of every stock level is the sum of the remaining
\* quantities (quantity - quantity_fulfilled) of its ACTIVE reservations.
C14_ReservedIsSumOfActive ==
  \A l \in Locs :
    stockLevels[l] # NoLevel =>
      stockLevels[l].quantityReserved =
        SumQuantities([r \in ResIds |->
                         IF r \in ActiveOn(reservations, l)
                           THEN reservations[r].quantity - reservations[r].quantityFulfilled
                           ELSE 0])

\* C15: no reservation has more fulfilled than reserved, and a FULFILLED
\* reservation is fulfilled in full.
C15_FulfilledWithinQuantity ==
  \A r \in ResIds :
    reservations[r] # NoReservation =>
      /\ reservations[r].quantityFulfilled <= reservations[r].quantity
      /\ reservations[r].status = "FULFILLED" =>
           reservations[r].quantityFulfilled = reservations[r].quantity

\* ---------------------------------------------------------------------------
\* The agent runner on one event.

NextRunner ==
  \/ \E n \in 0..MaxSubscribed, concurrency \in 1..2, continueOnError \in BOOLEAN,
        binding \in Bindings : ExecuteForEventCall(n, concurrency, continueOnError, binding)
  \/ \E a \in AgentIds : HandlerMutate(a)
  \/ \E a \in AgentIds, outcome \in HandlerOutcomes : HandlerReturn(a, outcome)
  \/ \E a \in AgentIds : TimeoutFires(a)
  \/ BatchSettled

SpecRunner == Init /\ [][NextRunner]_vars

\* the batch an agent of the list belongs to
BatchIndex(a) == (a - 1) \div runner.concurrency

\* executeAgent returned a failure result for the agent
Failed(a) == runner.h[a].raced \in {"result", "timeout"} /\ ~runner.h[a].result.result.success

\* C21: with continueOnError = true, once executeForEvent is over every
\* subscribed agent was invoked exactly once and successCount + failureCount
\* is the number of subscribed agents.
C21_AllAgentsOnce ==
  (runner.continueOnError /\ runner.pc \in {"done", "thrown"}) =>
    /\ runner.pc = "done"
    /\ \A a \in 1..runner.n : runner.h[a].invoked = 1
    /\ runner.out.successCount + runner.out.failureCount = runner.n

\* C22: with continueOnError = false, after a batch containing a failed agent
\* no agent of a later batch is invoked.
C22_ShortCircuit ==
  ~runner.continueOnError =>
    \A a, b \in 1..runner.n :
      (Failed(a) /\ BatchIndex(a) < BatchIndex(b)) => runner.h[b].invoked = 0

\* a run of three agents in batches of two: the first agent failed, the second
\* of its batch ran all the same, the third was never invoked and the run is over
C22_Witness ==
  /\ ~runner.continueOnError /\ runner.pc = "done" /\ runner.n = 3
  /\ runner.concurrency = 2
  /\ Failed(1) /\ runner.h[2].invoked = 1 /\ runner.h[3].invoked = 0
  /\ runner.out.failureCount >= 1

\* C23: an invocation that ran into the timeout yields a failure result and
\* its handler performs no state mutation after the deadline.
C23_TimeoutCancels ==
  \A a \in AgentIds :
    runner.h[a].raced = "timeout" =>
      /\ ~runner.h[a].result.result.success
      /\ runner.h[a].late = 0

\* C24: the envelopes executeForEvent returns are in the order in which the
\* agents completed.
C24_CompletionOrder ==
  runner.pc = "done" =>
    runner.out.eventsToPublish =
      FlatMapEvents([k \in DOMAIN runner.completed |-> runner.h[runner.completed[k]].result.result])

\* ---------------------------------------------------------------------------
\* The agent registry.

NextRegistry ==
  \/ \E name \in AgentNames, subscribesTo \in SUBSET EventTypes : Register(name, subscribesTo)
  \/ \E name \in AgentNames : Unregister(name)

SpecRegistry == Init /\ [][NextRegistry]_vars

\* C26: after a registration under an already-registered name,
\* getAgentsForEvent(t) returns the name exactly for the event types the new
\* agent declares (every type when it declares '*').
C26_ReplaceResolvesToNew ==
  (registry.last.op = "register" /\ registry.last.replaced) =>
    LET name == registry.last.name
        declared == registry.agents[name].subscribesTo
    IN \A t \in EventTypes \ {"*"} :
         name \in GetAgentsForEvent(t) <=> (t \in declared \/ "*" \in declared)

\* C27: after unregister(name) the name is in neither index.
C27_UnregisterRemovesBoth ==
  registry.last.op = "unregister" =>
    /\ ~registry.agents[registry.last.name].registered
    /\ \A t \in EventTypes : registry.last.name \notin registry.eventSubscriptions[t]

\* ---------------------------------------------------------------------------
\* The scheduler and the outbox purge.

NextSched ==
  \/ JobTick
  \/ FindTenants
  \/ FindWarehouses
  \/ AppendEvent
  \/ AppendThrows
  \/ CreateOutboxRow
  \/ CreateThrows
  \/ HandleInternalJob
  \/ \E r \in SchedRowIds, status \in {"PUBLISHED", "FAILED"} : DispatchRow(r, status)
  \/ \E r \in SchedRowIds : RetryRow(r)
  \/ DayPasses

SpecSched == Init /\ [][NextSched]_vars

\* the (tenant, warehouse) pairs a tick is to cover
ActivePairs == { <<t, w>> \in ActiveTenants \X {x.id : x \in WarehouseRows} : w \in ActiveWarehouses(t) }

\* the envelopes of a set made by the current run for one pair
OfPair(envelopes, pair) ==
  { e \in envelopes : e.tick = sched.run.tick /\ e.tenant_id = pair[1] /\ e.warehouse_id = pair[2] }

\* C28: when a tick of a scheduled job is over, every (active tenant, active
\* warehouse) pair has exactly one envelope of the tick, in the event store
\* and in the outbox, and no two envelopes of the tick share a correlation id.
C28_OneEnvelopePerPair ==
  sched.run.pc = "done" =>
    /\ \A pair \in ActivePairs :
         /\ Cardinality(OfPair(sched.eventStore, pair)) = 1
         /\ OfPair(sched.enqueued, pair) = OfPair(sched.eventStore, pair)
    /\ \A e, f \in sched.eventStore :
         (e.tick = sched.run.tick /\ f.tick = sched.run.tick /\ e # f)
           => e.correlation_id # f.correlation_id

\* C38: the event-store row and the outbox row of a scheduled envelope are
\* written atomically: outside the step between the two writes of the running
\* job, also after one of them has failed, every scheduled event of the event
\* store has had its outbox row created.
C38_EventStoreRowHasOutboxRow ==
  sched.run.pc # "create" => sched.eventStore \subseteq sched.enqueued

\* C29: a run of the internal outbox-cleanup job creates no envelope, no
\* event-store row and no outbox row, and the rows it deletes are PUBLISHED
\* with publishedAt before the cutoff; PENDING and FAILED rows stay.
C29_PurgeOnlyOldPublished ==
  [][sched'.purges = sched.purges + 1 =>
       /\ sched'.eventStore = sched.eventStore
       /\ sched'.enqueued = sched.enqueued
       /\ sched'.run = sched.run
       /\ \A r \in SchedRowIds :
            /\ sched'.rows[r] # sched.rows[r] =>
                 /\ sched'.rows[r] = NoSchedRow
                 /\ sched.rows[r].status = "PUBLISHED"
                 /\ sched.rows[r].age > DaysToKeep
            /\ sched.rows[r].status \in {"PENDING", "FAILED"} => sched'.rows[r] = sched.rows[r]]_vars

\* the purge ran and deleted an old PUBLISHED row, while a FAILED row whose
\* publishedAt is as old (published once, retried by an operator, then failed)
\* is still there
C29_Witness ==
  /\ sched.purges >= 1
  /\ sched.deleted # {}
  /\ \E r \in SchedRowIds :
       /\ sched.rows[r].status = "FAILED"
       /\ sched.rows[r].published /\ sched.rows[r].age > DaysToKeep

====
